---- MODULE Spec2Model ----
(***************************************************************************)
(* A model of @vscode/test-electron: the download/cache pipeline           *)
(* (download.ts), the once-memo of util.ts and the runTests supervisor     *)
(* (runTest.ts).                                                           *)
(***************************************************************************)
EXTENDS Integers, Sequences, FiniteSets, TLC

VARIABLES
    \* ---- download(): the cache directory and one call at a time
    cache,        \* [Dirs -> [st, commit]]: the entries under cachePath
    latest,       \* [platform -> the hash of the latest insiders build the update
                  \* service lists for it]
    pc,           \* where the current download() call stands
    version,      \* options.version of the current call ("none" = undefined)
    platform,     \* options.platform of the current call
    resolved,     \* the local `version` after resolution
    i,            \* the loop variable of the retry loop
    attempts,     \* how often the download-and-unzip unit was started in this call
    installs,     \* how many extractions completed in this call
    requests,     \* network requests of this call, per kind
    reports,      \* what the reporter was given in this call
    result,       \* [path] on return, [error] on throw, NoResult before
    cacheAtStart, \* the cache when the current call started
    prev,         \* the call before the current one, as it ended
    calls,        \* number of download() calls started
    totalInstalls, \* extractions completed over all calls
    \* ---- onceWithoutRejections(fn): one wrapper and its callers
    value,        \* the closure variable: 0 (undefined) or the promise it holds
    invocations,  \* how often fn was invoked; invocation n made promise n
    inner,        \* [n -> state of the promise fn returned at invocation n]
    outer,        \* [n -> state of fn(...).catch(...), the promise handed out]
    got,          \* [caller -> the promise its last call returned, 0 = none]
    seen,         \* [caller -> what it observed of that promise]
    wcalls,       \* number of calls of the wrapper
    \* ---- runTests(): the launched application and its supervisor
    hostPlatform, \* process.platform of the supervising process
    rpc,          \* where the current runTests() invocation stands
    exeSupplied,  \* whether options.vscodeExecutablePath was given
    runs,         \* number of runTests() invocations
    callsAtRun,   \* the value of calls when the invocation began
    spawned,      \* the executable given to cp.spawn, "none" before
    child,        \* "none", "running", "closing" (shutting down) or "exited"
    exit,         \* [code, signal] of the child's termination
    sup,          \* the state of the interrupt/termination state machine
    interrupts,   \* interrupt signals the supervisor received since the launch
    interruptsAtExit, \* the value of interrupts when the child terminated
    issued,       \* what the supervisor sent to terminate the child, in order
    pending,      \* the sent signals that have not reached the child yet
    promise,      \* the promise runTests() returned
    closes,       \* how often the close handler ran
    \* ---- downloadVSCodeArchive(): the artifact stream and its idle timer
    sst,          \* "idle", "streaming", "ended" or "aborted" (destroyed)
    totalBytes,   \* Number(download.headers['content-length'])
    bytesSoFar,   \* the closure variable of the data handler
    armed,        \* whether the handle of the TimeoutController is set
    timer,        \* time units since the handle was set
    gap,          \* time units since the last chunk (or since the stream began)
    maxGap,       \* the longest gap of the stream so far
    elapsed,      \* time units since the stream began
    progress,     \* the Downloading reports of the attempt, in order
    serr,         \* the error the stream emitted first, "none" before
    emitted,      \* the error events emitted on the stream, in order
    \* ---- fetchTargetInferredVersion(): inference from project manifests
    ipc,          \* "idle", "reading", "done" or "failed"
    manifests,    \* what is declared at each extension development path
    constraints,  \* the ranges read from the manifests so far
    inferred      \* the version returned, NoVersion before

dlVars == << cache, latest, pc, version, platform, resolved, i, attempts, installs,
             requests, reports, result, cacheAtStart, prev, calls, totalInstalls >>

onceVars == << value, invocations, inner, outer, got, seen, wcalls >>

streamVars == << sst, totalBytes, bytesSoFar, armed, timer, gap, maxGap, elapsed,
                 progress, serr, emitted >>

VARIABLES
    vpc,          \* Version: position of the caller ("idle", "input", "parsed", "read", "printed")
    vs,           \* the string handed to Version.parse
    parsed,       \* the Version object built by parse
    vclass,       \* the values of its getters isCommit, isInsiders, isStable
    vstr          \* the value of its toString()

versionVars == << vpc, vs, parsed, vclass, vstr >>

VARIABLES
    rstream,      \* validateStream: the readable ("idle", "open", "ended", "errored")
    length,       \* the expected length
    sha256,       \* the expected checksum, "" when none is given
    actualLen,    \* bytes counted by the data handler
    checksum,     \* the running state of the hash, fed by the data handler
    received,     \* the bytes the readable delivered
    validated     \* the promise validateStream returned

validateVars == << rstream, length, sha256, actualLen, checksum, received, validated >>

VARIABLES
    zres,         \* unzipVSCode, jszip loop: "idle", "extracting", "done", "invalid", "failed"
    zcount,       \* entries of the archive the loop has taken
    zentry,       \* the entry taken last
    written,      \* paths of the files written
    made          \* paths of the directories that exist

zipVars == << zres, zcount, zentry, written, made >>

VARIABLES
    ppc,          \* argument assembly: "idle", "called", "built", "reapplied"
    callerArgs,   \* the arguments the caller supplied
    reuseMachineInstall,   \* the option of that name
    finalArgs,    \* the argument list handed to the launch
    again         \* getProfileArguments applied to finalArgs

profileVars == << ppc, callerArgs, reuseMachineInstall, finalArgs, again >>

VARIABLES
    constructed,            \* ConsoleReporter: whether the constructor has run
    showDownloadProgress,   \* the constructor's argument
    reporterVersion,        \* this.version
    downloadReport,         \* this.downloadReport
    timeouts,               \* callbacks of setTimeout(() => this.reportDownload(), 100) not run yet
    reportCount,            \* reports received
    console                 \* what was written to the console and to stdout, in order

reporterVars == << constructed, showDownloadProgress, reporterVersion, downloadReport,
                   timeouts, reportCount, console >>

VARIABLES
    cliPc,        \* code-test: "idle", "parsed", "exited"
    cliArgs,      \* what parseArgs made of the command line
    exitCode      \* process.exitCode, "unset" until main() has settled

cliVars == << cliPc, cliArgs, exitCode >>

VARIABLES
    sink          \* the progress sink handed to download(): "quiet", or the report
                  \* stage (or "error") at which its method throws

sinkVars == << sink >>

VARIABLES
    cpc,          \* concurrent download() calls: [invocation -> its position]
    cplatform,    \* [invocation -> options.platform]
    cversion,     \* [invocation -> options.version]
    ci,           \* [invocation -> i of its retry loop]
    cresult,      \* [invocation -> what it returned or threw]
    ccache,       \* the shared cache root: [directory name -> entry]
    croot,        \* whether the cache root directory exists
    staging,      \* the files vscode-test-<Date.now()>.zip in tmpdir()
    cstage,       \* [invocation -> the staging file it uses]
    touched       \* [invocation -> entries of the cache root it created, wrote or removed]

ccVars == << cpc, cplatform, cversion, ci, cresult, ccache, croot, staging, cstage, touched >>

VARIABLES
    served        \* the list the update service answers /api/releases/stable with

catalogVars == << served >>

VARIABLES
    ready,        \* watchConfigs: whether the watcher has emitted 'ready'
    debounceRun,  \* the handle of that name: "undefined", "pending" or "spent"
    timers,       \* how many timeouts set by runOrDebounce are pending
    rerun,        \* the flag of that name
    running,      \* the flag of that name
    inProgress,   \* how many runConfigs executions are in progress
    events,       \* how many file-change events the watcher has emitted
    owed,         \* a change was seen after 'ready' and no run has started since
    started,      \* how many runConfigs executions have been started
    alive         \* the process has not been terminated

watchVars == << ready, debounceRun, timers, rerun, running, inProgress, events, owed,
               started, alive >>

VARIABLES
    qpc,          \* runConfigs: "idle", "looping", "returned", "threw"
    bail,         \* args.bail
    configs,      \* the configurations: for each, whether isDesktop holds
    cfgIndex,     \* the configuration the for loop is at
    ran,          \* the configurations runTests was called for, in order
    exitCodes,    \* the exit codes their applications ended with
    rcode,        \* the variable code
    settled       \* the promise of runConfigs

configVars == << qpc, bail, configs, cfgIndex, ran, exitCodes, rcode, settled >>

inferVars == << ipc, manifests, constraints, inferred >>

runVars == << hostPlatform, rpc, exeSupplied, runs, callsAtRun, spawned, child, exit, sup,
              interrupts, interruptsAtExit, issued, pending, promise, closes >>

vars == << dlVars, onceVars, runVars, streamVars, inferVars, versionVars, validateVars, zipVars, profileVars, reporterVars, cliVars, sinkVars, ccVars, catalogVars, watchVars, configVars >>

-----------------------------------------------------------------------------
(* Bounds *)

MaxCalls == 2

NumCallers == 2

MaxWrapperCalls == 3

MaxRuns == 2

MaxInterrupts == 3

\* the idle window of the stream, in time units
IdleWindow == 2

MaxTicks == 5

MaxBytes == 3

MaxProjects == 2

MaxEvents == 5

MaxConfigs == 3

(* Program constants *)

DOWNLOAD_ATTEMPTS == 3

-----------------------------------------------------------------------------
(* Version identifiers, platforms and what the update service publishes *)

Commit == "abcdef0"

\* a commit hash that no catalog lists
UnlistedCommit == "1234567"

Platforms == {"darwin", "linux-x64"}

\* the values of options.version the calls are made with
VersionArgs ==
    {"none", "stable", "insiders", "1.60.0", "1.55.2", "9.9.9", Commit, UnlistedCommit}

\* the versions a cache entry can be named after
DiskVersions == {"insiders", "1.60.0", "1.55.2", Commit}

StableCatalog == << "1.60.0", "1.55.2" >>

InsiderCommits == << Commit >>

Hashes == {"h1", "h2"}

\* the platforms the update service keeps insiders metadata for
MetadataPlatforms == Platforms \cup {"win32-archive"}

Digits == {"0", "1", "2", "3", "4", "5", "6", "7", "8", "9"}

LowerLetters ==
    {"a", "b", "c", "d", "e", "f", "g", "h", "i", "j", "k", "l", "m",
     "n", "o", "p", "q", "r", "s", "t", "u", "v", "w", "x", "y", "z"}

\* the characters of each identifier
Chars(v) ==
    CASE v = "stable"   -> << "s", "t", "a", "b", "l", "e" >>
      [] v = "insiders" -> << "i", "n", "s", "i", "d", "e", "r", "s" >>
      [] v = "1.60.0"   -> << "1", ".", "6", "0", ".", "0" >>
      [] v = "1.55.2"   -> << "1", ".", "5", "5", ".", "2" >>
      [] v = "9.9.9"    -> << "9", ".", "9", ".", "9" >>
      [] v = Commit     -> << "a", "b", "c", "d", "e", "f", "0" >>
      [] v = UnlistedCommit -> << "1", "2", "3", "4", "5", "6", "7" >>
      [] v = "darwin"   -> << "d", "a", "r", "w", "i", "n" >>
      [] v = "linux-x64" -> << "l", "i", "n", "u", "x", "-", "x", "6", "4" >>
      [] OTHER          -> << >>

AllDigits(s, from, to) == from <= to /\ \A k \in from..to : s[k] \in Digits

\* /^[0-9]+\.[0-9]+\.[0-9]$/
MatchesStableRegex(s) ==
    \E a, b \in 1..Len(s) :
        /\ a < b
        /\ s[a] = "." /\ s[b] = "."
        /\ AllDigits(s, 1, a - 1)
        /\ AllDigits(s, a + 1, b - 1)
        /\ Len(s) = b + 1
        /\ s[b + 1] \in Digits

isStableVersionIdentifier(v) == v = "stable" \/ MatchesStableRegex(Chars(v))

windowsPlatforms == {"win32-x64-archive", "win32-arm64-archive"}

darwinPlatforms == {"darwin-arm64", "darwin"}

downloadDirToExecutablePath(dir, p) ==
    IF p \in windowsPlatforms THEN << dir, "Code.exe" >>
    ELSE IF p \in darwinPlatforms
         THEN << dir, "Visual Studio Code.app/Contents/MacOS/Electron" >>
         ELSE << dir, "code" >>

insidersDownloadDirToExecutablePath(dir, p) ==
    IF p \in windowsPlatforms THEN << dir, "Code - Insiders.exe" >>
    ELSE IF p \in darwinPlatforms
         THEN << dir, "Visual Studio Code - Insiders.app/Contents/MacOS/Electron" >>
         ELSE << dir, "code-insiders" >>

\* path.resolve(cachePath, makeDownloadDirName(platform, version))
makeDownloadDirNameNoPlatform(p, v) == << "darwin", v >>

makeDownloadDirName(p, v) == << p, v >>

Dirs == Platforms \X DiskVersions

Absent == [st |-> "absent", commit |-> "none"]

existsSync(c, d) == d \in Dirs /\ c[d].st # "absent"

InRange(seq, x) == \E k \in 1..Len(seq) : seq[k] = x

-----------------------------------------------------------------------------
(* The reporter and the results of a call *)

NoResult == [kind |-> "none"]

Returned(path) == [kind |-> "path", path |-> path]

Thrown(err) == [kind |-> "error", error |-> err]

\* line 257: throw Error(`Invalid version ${version}`)
InvalidVersion(v) == [kind |-> "error", error |-> "Invalid version", id |-> v]

Stage(s) == [stage |-> s, attempt |-> 0]

RetryingStage(n) == [stage |-> "Retrying", attempt |-> n]

\* lines 281-288: the ReplacingOldInsiders report
ReplacingStage(old, new) ==
    [stage |-> "ReplacingOldInsiders", attempt |-> 0, oldHash |-> old, newHash |-> new]

\* requests made, per kind, and how many of the catalog requests failed
NoRequests == [catalog |-> 0, catalogFailed |-> 0, metadata |-> 0, location |-> 0, stream |-> 0]

NoCall == [outcome |-> "none"]

Bump(r, kind, n) == [r EXCEPT ![kind] = @ + n]

Callers == 1..NumCallers

Promises == 1..MaxWrapperCalls

Values == {"a", "b"}

Pending == [st |-> "pending", v |-> "none"]

NoPromise == [st |-> "none", v |-> "none"]

-----------------------------------------------------------------------------
InitOnce ==
    /\ value = 0
    /\ invocations = 0
    /\ inner = [n \in Promises |-> NoPromise]
    /\ outer = [n \in Promises |-> NoPromise]
    /\ got = [c \in Callers |-> 0]
    /\ seen = [c \in Callers |-> NoPromise]
    /\ wcalls = 0

InitDownload ==
    /\ cache = [d \in Dirs |-> Absent]
    /\ latest = [p \in MetadataPlatforms |-> "h1"]
    /\ pc = "idle"
    /\ version = "none"
    /\ platform = "darwin"
    /\ resolved = "none"
    /\ i = 0
    /\ attempts = 0
    /\ installs = 0
    /\ requests = NoRequests
    /\ reports = << >>
    /\ result = NoResult
    /\ cacheAtStart = [d \in Dirs |-> Absent]
    /\ prev = NoCall
    /\ calls = 0
    /\ totalInstalls = 0

HostPlatforms == {"win32", "linux", "darwin"}

NoExit == [code |-> "none", signal |-> "none"]

InitRun ==
    /\ rpc = "idle"
    /\ exeSupplied = FALSE
    /\ runs = 0
    /\ callsAtRun = 0
    /\ spawned = "none"
    /\ child = "none"
    /\ exit = NoExit
    /\ sup = "Idle"
    /\ interrupts = 0
    /\ interruptsAtExit = 0
    /\ issued = << >>
    /\ pending = {}
    /\ promise = Pending
    /\ closes = 0

InitStream ==
    /\ sst = "idle"
    /\ totalBytes = 0
    /\ bytesSoFar = 0
    /\ armed = FALSE
    /\ timer = 0
    /\ gap = 0
    /\ maxGap = 0
    /\ elapsed = 0
    /\ progress = << >>
    /\ serr = "none"
    /\ emitted = << >>

InitInfer ==
    /\ ipc = "idle"
    /\ manifests = << >>
    /\ constraints = << >>
    /\ inferred = [major |-> 0, minor |-> 0, patch |-> 0, pre |-> "none"]

\* Version: the strings handed to Version.parse, as character sequences
UNRELEASED_SUFFIX == << "-", "u", "n", "r", "e", "l", "e", "a", "s", "e", "d" >>

HexChars ==
    << "0", "1", "2", "3", "4", "5", "6", "7", "8", "9", "a", "b", "c", "d", "e", "f" >>

HexString(n) == [k \in 1..n |-> HexChars[(k % 16) + 1]]

VersionIds ==
    { << "s", "t", "a", "b", "l", "e" >>,
      << "i", "n", "s", "i", "d", "e", "r", "s" >>,
      << "1", ".", "6", "0", ".", "0" >>,
      << "1", ".", "6", "0", ".", "1", "0" >>,
      << "1", "0", ".", "2", ".", "3" >>,
      << "1", ".", "6", "0" >>,
      << "1", ".", "6", "0", ".", "0", "-", "i", "n", "s", "i", "d", "e", "r" >>,
      << "m", "a", "i", "n" >>,
      << >>,
      HexString(40),
      HexString(39),
      HexString(41),
      [k \in 1..40 |-> "a"],
      [k \in 1..40 |-> "A"],
      [k \in 1..40 |-> "7"] }

RECURSIVE WithSuffixes(_, _)
WithSuffixes(id, n) == IF n = 0 THEN id ELSE WithSuffixes(id, n - 1) \o UNRELEASED_SUFFIX

MaxSuffixes == 2

VersionStrings == { WithSuffixes(id, n) : id \in VersionIds, n \in 0..MaxSuffixes }

NoVersionObject == [id |-> << >>, isReleased |-> TRUE]

NoGetters == [isCommit |-> FALSE, isInsiders |-> FALSE, isStable |-> FALSE]

InitVersion ==
    /\ vpc = "idle"
    /\ vs = << >>
    /\ parsed = NoVersionObject
    /\ vclass = NoGetters
    /\ vstr = << >>

\* validateStream: bytes, chunks and digests
MaxStreamBytes == 3

Bytes == {1, 2}

Chunks == { << b >> : b \in Bytes } \cup { << b, c >> : b, c \in Bytes }

\* a hash over byte sequences with as many values as HashValues
HashValues == << "0", "1", "2", "3", "4" >>

createHash == 0

update(h, chunk) ==
    LET RECURSIVE Feed(_, _)
        Feed(state, k) ==
            IF k > Len(chunk) THEN state
            ELSE Feed((state * 3 + chunk[k]) % Len(HashValues), k + 1)
    IN  Feed(h, 1)

digest(h) == HashValues[h + 1]

Checksums == {""} \cup { HashValues[k] : k \in DOMAIN HashValues }

Unsettled == [state |-> "pending", error |-> "none"]

InitValidate ==
    /\ rstream = "idle"
    /\ length = 0
    /\ sha256 = ""
    /\ actualLen = 0
    /\ checksum = createHash
    /\ received = << >>
    /\ validated = Unsettled

\* unzipVSCode: paths are sequences of segments below one drive root
MaxEntries == 2

cachePath == << "cache" >>

extractDir == cachePath \o << "vscode-win32-x64-archive-1.60.0" >>

\* entry names of an archive, split at the separators
ZipNames ==
    { << "bin", "code.exe" >>,
      << "code.exe" >>,
      << "..", "evil" >>,
      << "bin", "..", "..", "evil" >>,
      << "..", "..", "evil" >>,
      << "..", "vscode-win32-x64-archive-1.60.0", "code.exe" >>,
      << "..", "vscode-win32-x64-archive-1.60.0" >>,
      << "..evil" >>,
      << "bin", "..evil" >>,
      << "bin", ".." >>,
      << "bin", "code.exe", "data" >>,
      << "bin", "..", "bin" >> }

ZipEntries == [name : ZipNames, dir : BOOLEAN]

NoEntry == [name |-> << >>, dir |-> TRUE]

InitZip ==
    /\ zres = "idle"
    /\ zcount = 0
    /\ zentry = NoEntry
    /\ written = {}
    /\ made = {cachePath}

\* launch arguments, split into the parts that hasArg tells apart
MaxArgs == 2

ArgPool ==
    { << "--", "extensions-dir", "=", "/my/extensions" >>,
      << "--", "extensions-dir" >>,
      << "--", "extensions-dir", "-backup" >>,
      << "--", "user-data-dir", "=", "/my/data" >>,
      << "--", "user-data-dir" >>,
      << "-", "user-data-dir" >>,
      << "--", "disable-extensions" >>,
      << "/my/extensions" >> }

ArgLists == UNION { [1..n -> ArgPool] : n \in 0..MaxArgs }

InitProfile ==
    /\ ppc = "idle"
    /\ callerArgs = << >>
    /\ reuseMachineInstall = FALSE
    /\ finalArgs = << >>
    /\ again = << >>

\* ConsoleReporter
MaxReports == 3

progressBarSize == 30

NoDownloadReport == [set |-> FALSE, bytesSoFar |-> 0, totalBytes |-> 0]

InitReporter ==
    /\ constructed = FALSE
    /\ showDownloadProgress = FALSE
    /\ reporterVersion = "none"
    /\ downloadReport = NoDownloadReport
    /\ timeouts = 0
    /\ reportCount = 0
    /\ console = << >>

\* code-test: the command lines, by what parseArgs makes of them
CommandLines == {"unknown option", "--help", "--version", "no tests path", "tests path"}

InitCli ==
    /\ cliPc = "idle"
    /\ cliArgs = "none"
    /\ exitCode = "unset"

\* concurrent download() calls in one process
Invocations == {"first", "second"}

ConcurrentPlatforms == {"darwin", "darwin-arm64", "linux-x64"}

ConcurrentVersions == {"1.60.0", "insiders"}

ConcurrentDirs == ConcurrentPlatforms \X ConcurrentVersions

\* the values Date.now() gives the invocations
StagingNames == {"vscode-test-1.zip", "vscode-test-2.zip"}

NoInstall == [st |-> "absent", archive |-> "none", fresh |-> FALSE]

InitConcurrent ==
    /\ cpc = [k \in Invocations |-> "idle"]
    /\ cplatform = [k \in Invocations |-> "darwin"]
    /\ cversion = [k \in Invocations |-> "1.60.0"]
    /\ ci = [k \in Invocations |-> 0]
    /\ cresult = [k \in Invocations |-> NoResult]
    /\ ccache = [d \in ConcurrentDirs |-> NoInstall]
    /\ croot = FALSE
    /\ staging = [t \in StagingNames |-> "none"]
    /\ cstage = [k \in Invocations |-> "none"]
    /\ touched = [k \in Invocations |-> {}]

\* the lists the update service may answer with
Catalogs == {StableCatalog, << >>}

InitCatalog == served = StableCatalog

\* cli-runner/bin.ts, lines 247-249: let debounceRun; let rerun = false; let running = true
InitWatch ==
    /\ ready = FALSE
    /\ debounceRun = "undefined"
    /\ timers = 0
    /\ rerun = FALSE
    /\ running = TRUE
    /\ inProgress = 0
    /\ events = 0
    /\ owed = FALSE
    /\ started = 0
    /\ alive = TRUE

\* the exit codes of the applications runConfigs launches
ConfigExitCodes == {"0", "1", "2"}

InitConfigs ==
    /\ qpc = "idle"
    /\ bail = FALSE
    /\ configs = << >>
    /\ cfgIndex = 0
    /\ ran = << >>
    /\ exitCodes = << >>
    /\ rcode = 0
    /\ settled = Pending

InitRest ==
    /\ InitConfigs
    /\ InitWatch
    /\ InitCatalog
    /\ InitDownload /\ InitOnce /\ InitRun /\ InitStream /\ InitInfer
    /\ InitVersion
    /\ InitValidate
    /\ InitZip
    /\ InitProfile
    /\ InitReporter
    /\ InitCli
    /\ InitConcurrent
    /\ sink = "quiet"

Init == InitRest /\ hostPlatform = "linux"

InitAnyHost == InitRest /\ hostPlatform \in HostPlatforms

-----------------------------------------------------------------------------
(* download(): helpers *)

dir == makeDownloadDirName(platform, resolved)

\* util.ts, lines 16-27: the download platform of the host
systemDefaultPlatform(host) ==
    IF host = "darwin" THEN "darwin"
    ELSE IF host = "win32" THEN "win32-archive"
    ELSE "linux-x64"

\* request.ts, lines 667-670: .../api/update/${platform}/insider/latest
getLatestInsidersMetadata(p) == latest[p]

\* lines 273-275: await getLatestInsidersMetadata(systemDefaultPlatform)
latestHash == getLatestInsidersMetadata(systemDefaultPlatform(hostPlatform))

InFlight ==
    {"validate", "resolved", "insidersMeta", "attempt", "stream", "unzip", "extracting"}

\* the entries readdir() yields that match downloadDirNameFormat for platform p:
\* /^vscode-(?<platform>[a-z]+)-(?<version>[0-9.]+)$/
FallbackVersions(c, p) ==
    IF \A k \in 1..Len(Chars(p)) : Chars(p)[k] \in LowerLetters
    THEN { v \in DiskVersions :
             /\ existsSync(c, << p, v >>)
             /\ \A k \in 1..Len(Chars(v)) : Chars(v)[k] \in Digits \cup {"."} }
    ELSE {}

\* the archive format the CDN serves for a platform
Format(p) == IF p \in darwinPlatforms \cup windowsPlatforms THEN "zip" ELSE "tgz"

\* lines 325-329 (and 294-300): the executable inside a download directory
ExecutablePath(d, v, p) ==
    IF isStableVersionIdentifier(v)
    THEN downloadDirToExecutablePath(d, p)
    ELSE insidersDownloadDirToExecutablePath(d, p)

\* line 66: return versions[0]
OldestOf(versions) == versions[Len(versions)]

\* versions[0] of an empty array is undefined
NewestOf(versions) == IF versions = << >> THEN "undefined" ELSE versions[1]

\* line 255: only validate version against the server when no local download
\* that matches the version exists
NeedsValidationAlways(c, p, v) == TRUE

NeedsValidationNever(c, p, v) == FALSE

NeedsValidation(c, p, v) == ~existsSync(c, << p, v >>)

\* the value of i when the next iteration starts: the catch block's i++ and
\* then the for statement's i++
NextIOnce(n) == n + 1

NextI(n) == (n + 1) + 1

\* reporter.report({ stage }) throws, or reporter.error(err) for "error"
Throws(stage) == sink = stage

SinkError == "sink error"

\* catch (error) { if (i++ < DOWNLOAD_ATTEMPTS) report Retrying else throw }
Catch(rs) ==
    IF i < DOWNLOAD_ATTEMPTS
    THEN IF Throws("Retrying")
         THEN /\ reports' = rs
              /\ i' = i + 1
              /\ pc' = "failed"
              /\ result' = Thrown(SinkError)
         ELSE /\ reports' = Append(rs, RetryingStage(i + 1))
              /\ i' = NextI(i)
              /\ pc' = "attempt"
              /\ result' = result
    ELSE /\ reports' = rs
         /\ i' = i + 1
         /\ pc' = "failed"
         /\ result' = Thrown(IF Throws("error") THEN SinkError
                             ELSE "Failed to download and unzip VS Code")

Fail(err) == pc' = "failed" /\ result' = Thrown(err)

Return(path) == pc' = "done" /\ result' = Returned(path)

-----------------------------------------------------------------------------
(* download(): one action per step between two awaits *)

\* a call begins (lines 241-249)
DlBegin(v, p) ==
    /\ prev' = IF pc = "idle" THEN NoCall
               ELSE IF pc = "done"
               THEN [outcome |-> pc, version |-> version, platform |-> platform,
                     result |-> result]
               ELSE [outcome |-> pc]
    /\ version' = v
    /\ platform' = p
    /\ resolved' = "none"
    /\ i' = 0
    /\ attempts' = 0
    /\ installs' = 0
    /\ requests' = NoRequests
    /\ reports' = << >>
    /\ result' = NoResult
    /\ cacheAtStart' = cache
    /\ calls' = calls + 1
    /\ pc' = "validate"
    /\ UNCHANGED << cache, latest, totalInstalls >>

\* lines 251-262: validation, or resolution of the stable version
DlValidate ==
    /\ UNCHANGED << onceVars, runVars, streamVars, inferVars, versionVars, validateVars, zipVars, profileVars, reporterVars, cliVars, sinkVars, ccVars, catalogVars, watchVars, configVars >>
    /\ pc = "validate"
    /\ UNCHANGED << cache, latest, version, platform, i, attempts, installs, reports,
                    cacheAtStart, prev, calls, totalInstalls >>
    /\ IF version \notin {"none", "stable"}
       THEN IF ~NeedsValidation(cache, platform, version) \/ version = "insiders"
            THEN \* no validation against the server
                 /\ resolved' = version
                 /\ pc' = "resolved"
                 /\ UNCHANGED << requests, result >>
            ELSE \* isValidVersion, lines 69-83
                 \E stableOk, insidersOk \in BOOLEAN :
                    /\ resolved' = version
                    /\ IF ~stableOk
                       THEN /\ requests' = Bump(Bump(requests, "catalog", 1), "catalogFailed", 1)
                            /\ insidersOk
                            /\ Fail("fetch error")
                       ELSE IF InRange(served, version)
                       THEN /\ requests' = Bump(requests, "catalog", 1)
                            /\ insidersOk
                            /\ pc' = "resolved"
                            /\ result' = result
                       ELSE /\ requests' = Bump(Bump(requests, "catalog", 2), "catalogFailed",
                                                 IF insidersOk THEN 0 ELSE 1)
                            /\ IF ~insidersOk
                               THEN Fail("fetch error")
                               ELSE IF InRange(InsiderCommits, version)
                               THEN pc' = "resolved" /\ result' = result
                               ELSE pc' = "failed" /\ result' = InvalidVersion(version)
       ELSE \* fetchTargetStableVersion, lines 45-67
            \E ok \in BOOLEAN :
               /\ requests' = Bump(Bump(requests, "catalog", 1), "catalogFailed",
                                    IF ok THEN 0 ELSE 1)
               /\ IF ok
                  THEN /\ resolved' = NewestOf(served)
                       /\ pc' = "resolved"
                       /\ result' = result
                  ELSE IF FallbackVersions(cache, platform) # {}
                  THEN \* sort((a, b) => Number(b) - Number(a)) compares NaN for
                       \* a.b.c, so the first entry is whichever readdir gave first
                       /\ resolved' \in FallbackVersions(cache, platform)
                       /\ pc' = "resolved"
                       /\ result' = result
                  ELSE /\ resolved' = resolved
                       /\ Fail("fetch error")

\* lines 264-301: ResolvedVersion, then the cache short-circuit
DlResolved ==
    /\ UNCHANGED << onceVars, runVars, streamVars, inferVars, versionVars, validateVars, zipVars, profileVars, reporterVars, cliVars, sinkVars, ccVars, catalogVars, watchVars, configVars >>
    /\ pc = "resolved"
    /\ UNCHANGED << cache, latest, version, platform, resolved, i, attempts, installs,
                    requests, cacheAtStart, prev, calls, totalInstalls >>
    /\ IF Throws("ResolvedVersion")
       THEN reports' = reports /\ Fail(SinkError)
       ELSE IF existsSync(cache, dir) /\ Throws(IF resolved = "insiders"
                                                THEN "FetchingInsidersMetadata"
                                                ELSE "FoundMatchingInstall")
       THEN reports' = Append(reports, Stage("ResolvedVersion")) /\ Fail(SinkError)
       ELSE IF existsSync(cache, dir)
       THEN IF resolved = "insiders"
            THEN \* insidersDownloadDirMetadata reads product.json of the install
                 \E readable \in BOOLEAN :
                    /\ cache[dir].st = "complete" => readable
                    /\ IF readable
                       THEN /\ reports' = reports \o << Stage("ResolvedVersion"),
                                                        Stage("FetchingInsidersMetadata") >>
                            /\ pc' = "insidersMeta"
                            /\ result' = result
                       ELSE /\ reports' = reports \o << Stage("ResolvedVersion"),
                                                        Stage("FetchingInsidersMetadata") >>
                            /\ Fail("product.json unreadable")
            ELSE /\ reports' = reports \o << Stage("ResolvedVersion"),
                                             Stage("FoundMatchingInstall") >>
                 /\ Return(ExecutablePath(dir, resolved, platform))
       ELSE /\ reports' = Append(reports, Stage("ResolvedVersion"))
            /\ pc' = "attempt"
            /\ result' = result

\* line 276: currentHash === latestHash
SameBuildAlways(currentHash, fetchedHash) == TRUE

SameBuild(currentHash, fetchedHash) == currentHash = fetchedHash

\* lines 272-293: the freshness check of a cached insiders build
DlInsidersMeta ==
    /\ UNCHANGED << onceVars, runVars, streamVars, inferVars, versionVars, validateVars, zipVars, profileVars, reporterVars, cliVars, sinkVars, ccVars, catalogVars, watchVars, configVars >>
    /\ pc = "insidersMeta"
    /\ requests' = Bump(requests, "metadata", 1)
    /\ UNCHANGED << latest, version, platform, resolved, i, attempts, installs,
                    cacheAtStart, prev, calls, totalInstalls >>
    /\ \E ok, removed \in BOOLEAN :
          IF ~ok
          THEN /\ removed
               /\ Fail("fetch error")
               /\ UNCHANGED << cache, reports >>
          ELSE IF SameBuild(cache[dir].commit, latestHash)
          THEN /\ removed
               /\ cache' = cache
               /\ IF Throws("FoundMatchingInstall")
                  THEN reports' = reports /\ Fail(SinkError)
                  ELSE /\ reports' = Append(reports, Stage("FoundMatchingInstall"))
                       /\ Return(insidersDownloadDirToExecutablePath(dir, platform))
          ELSE IF Throws("ReplacingOldInsiders")
          THEN \* caught at line 289: reporter.error(err), then the throw of line 291
               /\ removed
               /\ UNCHANGED << cache, reports >>
               /\ Fail("Failed to remove outdated Insiders")
          ELSE /\ reports' = Append(reports, ReplacingStage(cache[dir].commit, latestHash))
               /\ IF removed
                  THEN /\ cache' = [cache EXCEPT ![dir] = Absent]
                       /\ pc' = "attempt"
                       /\ result' = result
                  ELSE /\ cache' = [cache EXCEPT ![dir].st = "partial"]
                       /\ Fail(IF Throws("error") THEN SinkError
                               ELSE "Failed to remove outdated Insiders")

\* downloadVSCodeArchive, lines 113-129: the request that resolves the CDN location
DlResolveLocation ==
    /\ UNCHANGED << onceVars, runVars, streamVars, inferVars, versionVars, validateVars, zipVars, profileVars, reporterVars, cliVars, sinkVars, ccVars, catalogVars, watchVars, configVars >>
    /\ pc = "attempt"
    /\ attempts' = attempts + 1
    /\ requests' = IF Throws("ResolvingCDNLocation") THEN requests
                   ELSE Bump(requests, "location", 1)
    /\ UNCHANGED << cache, latest, version, platform, resolved, installs,
                    cacheAtStart, prev, calls, totalInstalls >>
    /\ \E ok \in (IF resolved = "undefined" THEN {FALSE} ELSE BOOLEAN) :
          \* the service has no artifact of the name 'undefined'
          IF Throws("ResolvingCDNLocation")
          THEN \* line 115 throws before the request is made
               ok /\ Catch(reports)
          ELSE IF ok
          THEN /\ reports' = Append(reports, Stage("ResolvingCDNLocation"))
               /\ pc' = "stream"
               /\ UNCHANGED << i, result >>
          ELSE \* the request fails, or the answer is no 302 with a location
               Catch(Append(reports, Stage("ResolvingCDNLocation")))

\* the request for the artifact without the Downloading report of line 138
DlStreamSilent ==
    /\ UNCHANGED << onceVars, runVars, streamVars, inferVars, versionVars, validateVars, zipVars, profileVars, reporterVars, cliVars, sinkVars, ccVars, catalogVars, watchVars, configVars >>
    /\ pc = "stream"
    /\ requests' = Bump(requests, "stream", 1)
    /\ UNCHANGED << cache, latest, version, platform, resolved, attempts, installs,
                    cacheAtStart, prev, calls, totalInstalls >>
    /\ \E ok \in BOOLEAN :
          IF ok /\ ~Throws("Downloading")
          THEN /\ reports' = reports
               /\ pc' = "unzip"
               /\ UNCHANGED << i, result >>
          ELSE Catch(reports)

\* downloadVSCodeArchive, lines 131-156: the request for the artifact itself
DlStream ==
    /\ UNCHANGED << onceVars, runVars, streamVars, inferVars, versionVars, validateVars, zipVars, profileVars, reporterVars, cliVars, sinkVars, ccVars, catalogVars, watchVars, configVars >>
    /\ pc = "stream"
    /\ requests' = Bump(requests, "stream", 1)
    /\ UNCHANGED << cache, latest, version, platform, resolved, attempts, installs,
                    cacheAtStart, prev, calls, totalInstalls >>
    /\ \E ok \in BOOLEAN :
          IF ok /\ ~Throws("Downloading")
          THEN /\ reports' = Append(reports, Stage("Downloading"))
               /\ pc' = "unzip"
               /\ UNCHANGED << i, result >>
          ELSE Catch(reports)

\* unzipVSCode, lines 162-213, up to the creation of extractDir: a zip is first
\* staged in a temporary file, tar gets the directory made for it
DlUnzip ==
    /\ UNCHANGED << onceVars, runVars, streamVars, inferVars, versionVars, validateVars, zipVars, profileVars, reporterVars, cliVars, sinkVars, ccVars, catalogVars, watchVars, configVars >>
    /\ pc = "unzip"
    /\ UNCHANGED << latest, version, platform, resolved, attempts, installs, requests,
                    cacheAtStart, prev, calls, totalInstalls >>
    /\ \E staged \in BOOLEAN :
          IF Format(platform) = "zip" /\ Throws("ExtractingSynchonrously")
          THEN staged /\ Catch(reports) /\ cache' = cache
          ELSE IF Format(platform) = "zip" /\ ~staged
          THEN \* the stream fails while it is written to the staging file
               /\ Catch(Append(reports, Stage("ExtractingSynchonrously")))
               /\ cache' = cache
          ELSE /\ staged
               /\ reports' = IF Format(platform) = "zip"
                             THEN Append(reports, Stage("ExtractingSynchonrously"))
                             ELSE reports
               /\ cache' = [cache EXCEPT ![dir] =
                              [st |-> "partial",
                               commit |-> IF resolved = "insiders" THEN latest[platform] ELSE "none"]]
               /\ pc' = "extracting"
               /\ UNCHANGED << i, result >>

\* the decompressor runs to its end (lines 202, 213), then lines 307-308 and 323-329
DlExtract ==
    /\ UNCHANGED << onceVars, runVars, streamVars, inferVars, versionVars, validateVars, zipVars, profileVars, reporterVars, cliVars, sinkVars, ccVars, catalogVars, watchVars, configVars >>
    /\ pc = "extracting"
    /\ UNCHANGED << latest, version, platform, resolved, attempts, requests,
                    cacheAtStart, prev, calls >>
    /\ \E ok \in BOOLEAN :
          IF ok /\ Throws("NewInstallComplete")
          THEN \* line 307 throws inside the try block: the catch block retries
               /\ cache' = [cache EXCEPT ![dir].st = "complete"]
               /\ installs' = installs + 1
               /\ totalInstalls' = totalInstalls + 1
               /\ Catch(reports)
          ELSE IF ok
          THEN /\ cache' = [cache EXCEPT ![dir].st = "complete"]
               /\ installs' = installs + 1
               /\ totalInstalls' = totalInstalls + 1
               /\ reports' = reports \o << Stage("NewInstallComplete"),
                                           Stage("NewInstallComplete") >>
               /\ Return(ExecutablePath(dir, resolved, platform))
               /\ i' = i
          ELSE /\ Catch(reports)
               /\ UNCHANGED << cache, installs, totalInstalls >>

\* the process is killed while a call is in progress: what is on disk stays,
\* what the call held in memory is gone
DlKill ==
    /\ UNCHANGED << onceVars, runVars, streamVars, inferVars, versionVars, validateVars, zipVars, profileVars, reporterVars, cliVars, sinkVars, ccVars, catalogVars, watchVars, configVars >>
    /\ pc \in InFlight
    /\ pc' = "killed"
    /\ version' = "none"
    /\ platform' = "darwin"
    /\ resolved' = "none"
    /\ i' = 0
    /\ attempts' = 0
    /\ installs' = 0
    /\ requests' = NoRequests
    /\ reports' = << >>
    /\ result' = NoResult
    /\ UNCHANGED << cache, latest, cacheAtStart, prev, calls, totalInstalls >>

\* the update service publishes a new insiders build, for every platform at once
PublishInsiders ==
    /\ UNCHANGED << onceVars, runVars, streamVars, inferVars, versionVars, validateVars, zipVars, profileVars, reporterVars, cliVars, sinkVars, ccVars, catalogVars, watchVars, configVars >>
    /\ latest = [p \in MetadataPlatforms |-> "h1"]
    /\ latest' = [p \in MetadataPlatforms |-> "h2"]
    /\ UNCHANGED << cache, pc, version, platform, resolved, i, attempts, installs,
                    requests, reports, result, cacheAtStart, prev, calls, totalInstalls >>

\* a caller invokes download()
DlCall ==
    /\ pc \in {"idle", "done", "failed", "killed"}
    /\ calls < MaxCalls
    /\ \E v \in VersionArgs, p \in Platforms : DlBegin(v, p)
    /\ UNCHANGED << onceVars, runVars, streamVars, inferVars, versionVars, validateVars, zipVars, profileVars, reporterVars, cliVars, sinkVars, ccVars, catalogVars, watchVars, configVars >>

DlStep ==
    \/ DlValidate
    \/ DlResolved
    \/ DlInsidersMeta
    \/ DlResolveLocation
    \/ DlStream
    \/ DlUnzip
    \/ DlExtract
    \/ PublishInsiders

NextDownload == DlCall \/ DlStep \/ DlKill

SpecDownload == Init /\ [][NextDownload]_vars

\* the update service publishes a new insiders build for one platform, the
\* builds of the other platforms are not out yet
PublishInsidersFor ==
    /\ UNCHANGED << onceVars, runVars, streamVars, inferVars, versionVars, validateVars, zipVars, profileVars, reporterVars, cliVars, sinkVars, ccVars, catalogVars, watchVars, configVars >>
    /\ \E p \in MetadataPlatforms :
          /\ latest[p] = "h1"
          /\ latest' = [latest EXCEPT ![p] = "h2"]
    /\ UNCHANGED << cache, pc, version, platform, resolved, i, attempts, installs,
                    requests, reports, result, cacheAtStart, prev, calls, totalInstalls >>

\* download() calls while the platforms' insiders builds come out one by one
NextFresh == PublishInsidersFor \/ DlCall \/ DlStep

SpecFresh == Init /\ [][NextFresh]_vars

\* the update service answers the request for the stable releases with another
\* list, before the calls are made
ServeCatalog ==
    /\ pc = "idle"
    /\ served' \in Catalogs \ {served}
    /\ UNCHANGED << dlVars, onceVars, runVars, streamVars, inferVars, versionVars, validateVars,
                    zipVars, profileVars, reporterVars, cliVars, sinkVars, ccVars, watchVars, configVars >>

\* download() calls against either list
NextCatalog == ServeCatalog \/ DlCall \/ DlStep

SpecCatalog == Init /\ [][NextCatalog]_vars

-----------------------------------------------------------------------------
(* Claims about download() *)

DownloadFailed == Thrown("Failed to download and unzip VS Code")

Pinned(v) == v \notin {"none", "stable", "insiders"}

\* C1: within one call the unit "resolve CDN location, stream, extract" is started
\* at most DOWNLOAD_ATTEMPTS times; after DOWNLOAD_ATTEMPTS failed attempts no
\* further attempt is started and the call fails with "Failed to download and
\* unzip VS Code"; that error is thrown only after DOWNLOAD_ATTEMPTS attempts.
C1_RetryCeiling ==
    /\ attempts <= DOWNLOAD_ATTEMPTS
    /\ pc = "attempt" => attempts < DOWNLOAD_ATTEMPTS
    /\ result = DownloadFailed => attempts = DOWNLOAD_ATTEMPTS /\ pc = "failed"
    /\ (attempts = DOWNLOAD_ATTEMPTS /\ installs = 0 /\ pc \notin InFlight)
          => result = DownloadFailed

C1_Witness == pc = "failed" /\ result = DownloadFailed /\ attempts = DOWNLOAD_ATTEMPTS

\* the call at hand repeats the arguments of the call before it, which succeeded,
\* and the version is an exact id
SecondCallSameArgs ==
    /\ prev.outcome = "done"
    /\ pc \notin {"idle", "killed"}
    /\ version = prev.version
    /\ platform = prev.platform
    /\ Pinned(version)

\* C2: a call that repeats the arguments (an exact version id and a platform) of
\* the successful call before it makes no network request of any kind, starts no
\* download attempt, leaves the cache as it found it, cannot fail, reports
\* FoundMatchingInstall and returns the path the first call returned; when the
\* two calls started from an empty cache, one artifact was installed in total.
C2_Idempotent ==
    SecondCallSameArgs =>
        /\ requests = NoRequests
        /\ attempts = 0 /\ installs = 0
        /\ cache = cacheAtStart
        /\ pc # "failed"
        /\ pc = "done" =>
              /\ InRange(reports, Stage("FoundMatchingInstall"))
              /\ result = prev.result
              /\ calls = 2 => totalInstalls = 1

C2_Witness == SecondCallSameArgs /\ pc = "done" /\ calls = 2

\* C3: when the call before this one was killed and left the cache entry of
\* (platform, version) partially extracted, a call for that pinned version that
\* returns has downloaded and extracted the entry anew: the directory it returns
\* is a complete install.
C3_PartialDownloadSafety ==
    ( /\ prev.outcome = "killed"
      /\ pc = "done"
      /\ Pinned(version)
      /\ cacheAtStart[dir].st = "partial" )
        => cache[dir].st = "complete" /\ installs = 1

\* C13: when a retry attempt of the call starts (the 2nd and the 3rd attempt), the
\* cache directory of (platform, version) is not there: nothing a failed attempt
\* wrote is left when the next attempt starts.
C13_CleanSlateBeforeRetry ==
    (pc = "attempt" /\ attempts >= 1) => ~existsSync(cache, dir)

RetryingReports == { k \in DOMAIN reports : reports[k].stage = "Retrying" }

\* C14: a call that failed because DOWNLOAD_ATTEMPTS consecutive attempts failed
\* has delivered exactly DOWNLOAD_ATTEMPTS Retrying reports to the reporter.
C14_ThreeRetryingReports ==
    (pc = "failed" /\ result = DownloadFailed)
        => Cardinality(RetryingReports) = DOWNLOAD_ATTEMPTS

\* the step of a call that fetches the latest insiders metadata
MetadataFetched == pc = "insidersMeta" /\ requests'.metadata = requests.metadata + 1

RemovalFailed == Thrown("Failed to remove outdated Insiders")

\* C15: a call for 'insiders' that finds a cache entry it can read the commit of
\* fetches the latest insiders metadata and compares the hashes. Equal: it returns
\* the executable of the cached install, downloads nothing and leaves the cache
\* alone. Different: it reports ReplacingOldInsiders with the old and the new
\* hash and removes the entry before an attempt starts; when the removal fails
\* the call fails and no attempt starts.
C15_InsidersFreshness ==
    /\ [][(MetadataFetched /\ cache[dir].commit = latestHash)
             => /\ cache' = cache
                /\ attempts' = 0
                /\ pc' \in {"done", "failed"}
                /\ pc' = "failed" => result' = Thrown("fetch error")
                /\ pc' = "done"
                      => result' = Returned(insidersDownloadDirToExecutablePath(dir, platform))]_vars
    /\ [][(MetadataFetched /\ cache[dir].commit # latestHash)
             => /\ attempts' = 0
                /\ pc' \in {"attempt", "failed"}
                /\ pc' = "failed" => result' \in {Thrown("fetch error"), RemovalFailed}
                /\ (pc' = "attempt" \/ result' = RemovalFailed)
                      => reports' = Append(reports, ReplacingStage(cache[dir].commit, latestHash))
                /\ pc' = "attempt" => ~existsSync(cache', dir)]_vars
    /\ []((resolved = "insiders" /\ existsSync(cacheAtStart, dir) /\ pc \notin {"validate", "resolved"})
             => /\ attempts > 0
                   => /\ requests.metadata = 1
                      /\ \E k \in DOMAIN reports : reports[k].stage = "ReplacingOldInsiders"
                /\ (pc = "done" /\ attempts = 0)
                   => /\ cache = cacheAtStart
                      /\ requests.metadata = 1
                      /\ requests.location = 0 /\ requests.stream = 0
                /\ result = RemovalFailed
                   => attempts = 0 /\ requests.location = 0 /\ requests.stream = 0)

C15_Witness ==
    /\ resolved = "insiders"
    /\ pc = "attempt"
    /\ attempts = 0
    /\ cacheAtStart[dir] = [st |-> "complete", commit |-> "h1"]
    /\ reports[Len(reports)] = ReplacingStage("h1", "h2")
    /\ ~existsSync(cache, dir)

StableRequested == version \in {"none", "stable"}

\* the step in which fetchTargetStableVersion asks for the stable catalog
StableCatalogAsked ==
    pc = "validate" /\ StableRequested /\ requests'.catalog = requests.catalog + 1

NoEntryFor(c, p) == \A v \in DiskVersions : ~existsSync(c, << p, v >>)

\* C16: for version 'stable' or no version, when the fetch of the stable catalog
\* succeeds the resolved version is the first entry of the list; when it fails
\* and the cache holds no entry for the platform, the call fails with the error
\* of the fetch and starts no download.
C16_StableResolution ==
    /\ [][(StableCatalogAsked /\ requests'.catalogFailed = requests.catalogFailed)
             => pc' = "resolved" /\ resolved' = StableCatalog[1]]_vars
    /\ [][(StableCatalogAsked /\ requests'.catalogFailed = requests.catalogFailed + 1
                                /\ NoEntryFor(cache, platform))
             => pc' = "failed" /\ result' = Thrown("fetch error")]_vars
    /\ []((StableRequested /\ pc = "failed" /\ requests.catalogFailed = 1)
             => /\ result = Thrown("fetch error")
                /\ attempts = 0
                /\ requests.location = 0 /\ requests.stream = 0
                /\ cache = cacheAtStart)
    /\ []((StableRequested /\ requests.catalog = 1 /\ requests.catalogFailed = 0)
             => resolved = "1.60.0")

C16_Witness ==
    /\ version = "stable"
    /\ pc = "failed"
    /\ requests.catalogFailed = 1
    /\ NoEntryFor(cache, platform)
    /\ prev.outcome = "done"

\* the versions with a cache entry vscode-<platform>-<version> for platform p
CachedVersions(c, p) ==
    { v \in DiskVersions : existsSync(c, << p, v >>) /\ InRange(StableCatalog, v) }

\* the newest of a set of released versions: the catalog lists newest first
NewestCached(S) ==
    CHOOSE v \in S : \A w \in S :
        (CHOOSE k \in 1..Len(StableCatalog) : StableCatalog[k] = v)
            <= (CHOOSE k \in 1..Len(StableCatalog) : StableCatalog[k] = w)

\* C17: when the fetch of the stable catalog fails and the cache holds entries
\* vscode-<platform>-<version> for the requested platform, the version resolved
\* is the newest of the versions cached for that platform.
C17_OfflineFallback ==
    ( /\ StableRequested
      /\ pc \notin {"idle", "validate"}
      /\ requests.catalogFailed = 1
      /\ CachedVersions(cacheAtStart, platform) # {} )
        => /\ pc # "failed"
           /\ resolved = NewestCached(CachedVersions(cacheAtStart, platform))

UnknownVersion(v) ==
    /\ v \notin {"none", "stable", "insiders"}
    /\ ~InRange(StableCatalog, v)
    /\ ~InRange(InsiderCommits, v)

\* C18: a call with an explicit version that is not 'insiders', is listed in
\* neither catalog and has no cache directory for the platform fails before any
\* download attempt, with 'Invalid version <id>' once both catalogs were
\* fetched (with the error of the fetch when a catalog could not be fetched):
\* no CDN request is made, no stage is reported, the cache is not changed.
C18_InvalidVersion ==
    ( /\ UnknownVersion(version)
      /\ ~existsSync(cacheAtStart, << platform, version >>)
      /\ pc # "validate" )
        => /\ pc = "failed"
           /\ attempts = 0
           /\ requests.location = 0 /\ requests.stream = 0 /\ requests.metadata = 0
           /\ reports = << >>
           /\ cache = cacheAtStart
           /\ requests.catalogFailed = 0
                 => requests.catalog = 2 /\ result = InvalidVersion(version)
           /\ requests.catalogFailed > 0 => result = Thrown("fetch error")

C18_Witness ==
    /\ version = "9.9.9"
    /\ pc = "failed"
    /\ result = [kind |-> "error", error |-> "Invalid version", id |-> "9.9.9"]
    /\ requests.catalog = 2

CommitHashes == {Commit, UnlistedCommit}

\* C19: a call whose version is a commit hash does not fail with an
\* invalid-version error, whether or not a catalog lists the hash.
C19_CommitHashIsValid ==
    (version \in CommitHashes /\ pc = "failed") => result.error # "Invalid version"

-----------------------------------------------------------------------------
(* onceWithoutRejections(fn), util.ts *)

\* line 499: if (!value)
MustInvokeAlways == TRUE

MustInvoke == value = 0

\* line 501: the catch handler's assignment value = undefined
ValueKept(n) == n

ValueAfterRejection(n) == 0

\* lines 498-506: one call of the wrapper by caller c
WrapperCall(c) ==
    /\ wcalls < MaxWrapperCalls
    /\ wcalls' = wcalls + 1
    /\ IF MustInvoke
       THEN \* value = fn(...args).catch(...)
            /\ invocations' = invocations + 1
            /\ inner' = [inner EXCEPT ![invocations + 1] = Pending]
            /\ outer' = [outer EXCEPT ![invocations + 1] = Pending]
            /\ value' = invocations + 1
       ELSE UNCHANGED << invocations, inner, outer, value >>
    /\ got' = [got EXCEPT ![c] = value']
    /\ seen' = [seen EXCEPT ![c] = Pending]
    /\ UNCHANGED << dlVars, runVars, streamVars, inferVars, versionVars, validateVars, zipVars, profileVars, reporterVars, cliVars, sinkVars, ccVars, catalogVars, watchVars, configVars >>

\* the promise of invocation n is fulfilled; so is the promise derived from it
FnResolve(n) ==
    /\ inner[n].st = "pending"
    /\ \E v \in Values :
          /\ inner' = [inner EXCEPT ![n] = [st |-> "resolved", v |-> v]]
          /\ outer' = [outer EXCEPT ![n] = [st |-> "resolved", v |-> v]]
    /\ UNCHANGED << value, invocations, got, seen, wcalls, dlVars, runVars, streamVars, inferVars, versionVars, validateVars, zipVars, profileVars, reporterVars, cliVars, sinkVars, ccVars, catalogVars, watchVars, configVars >>

\* the promise of invocation n is rejected; its catch handler is queued
FnReject(n) ==
    /\ inner[n].st = "pending"
    /\ inner' = [inner EXCEPT ![n] = [st |-> "rejected", v |-> "err"]]
    /\ UNCHANGED << value, invocations, outer, got, seen, wcalls, dlVars, runVars, streamVars, inferVars, versionVars, validateVars, zipVars, profileVars, reporterVars, cliVars, sinkVars, ccVars, catalogVars, watchVars, configVars >>

\* lines 500-503: the catch handler runs: value = undefined; throw err
CatchHandler(n) ==
    /\ inner[n].st = "rejected"
    /\ outer[n].st = "pending"
    /\ value' = ValueAfterRejection(n)
    /\ outer' = [outer EXCEPT ![n] = inner[n]]
    /\ UNCHANGED << invocations, inner, got, seen, wcalls, dlVars, runVars, streamVars, inferVars, versionVars, validateVars, zipVars, profileVars, reporterVars, cliVars, sinkVars, ccVars, catalogVars, watchVars, configVars >>

\* a caller's continuation runs once the promise it holds is settled
Observe(c) ==
    /\ got[c] # 0
    /\ seen[c].st = "pending"
    /\ outer[got[c]].st \in {"resolved", "rejected"}
    /\ seen' = [seen EXCEPT ![c] = outer[got[c]]]
    /\ UNCHANGED << value, invocations, inner, outer, got, wcalls, dlVars, runVars, streamVars, inferVars, versionVars, validateVars, zipVars, profileVars, reporterVars, cliVars, sinkVars, ccVars, catalogVars, watchVars, configVars >>

NextOnce ==
    \/ \E c \in Callers : WrapperCall(c)
    \/ \E n \in Promises : FnResolve(n)
    \/ \E n \in Promises : FnReject(n)
    \/ \E n \in Promises : CatchHandler(n)
    \/ \E c \in Callers : Observe(c)

SpecOnce == Init /\ [][NextOnce]_vars

\* the invocations of fn whose promise is not settled
InFlightInvocations == { n \in Promises : inner[n].st = "pending" }

\* C4: at no time are two invocations of fn in flight; while one is in flight or
\* after one has resolved, a call of the wrapper does not invoke fn and returns
\* the promise of that invocation, and what a caller observes of it is its value.
C4_OnceShared ==
    /\ [](Cardinality(InFlightInvocations) <= 1)
    /\ [](\A n \in Promises :
             inner[n].st \in {"pending", "resolved"} => value = n /\ invocations = n)
    /\ [](\A c \in Callers :
             seen[c].st = "resolved" => seen[c] = inner[got[c]])
    /\ [][\A n \in Promises :
             inner[n].st \in {"pending", "resolved"} =>
                /\ invocations' = invocations
                /\ \A c \in Callers : wcalls' # wcalls /\ got'[c] # got[c] => got'[c] = n]_vars

\* two callers hold the promise of one invocation, which has resolved, and a
\* caller called after it resolved
C4_Witness ==
    /\ \E c1, c2 \in Callers : c1 # c2 /\ got[c1] = got[c2] /\ seen[c1].st = "resolved"
                                /\ seen[c2].st = "pending"
    /\ invocations = 1
    /\ wcalls = MaxWrapperCalls

\* C5: a rejection is handed on to the holders of the promise, and it empties the
\* memo: the memo never holds a promise that has rejected, a call never returns a
\* promise that has rejected already, the call after the reset invokes fn again,
\* and the result of an invocation that resolved stays memoized.
C5_RejectionNotCached ==
    /\ [](\A n \in Promises : outer[n].st = "rejected" =>
             /\ inner[n].st = "rejected"
             /\ value # n)
    /\ [](\A c \in Callers : seen[c].st = "rejected" => inner[got[c]].st = "rejected")
    /\ [][\A c \in Callers : wcalls' # wcalls /\ got'[c] # got[c] =>
             /\ outer'[got'[c]].st # "rejected"
             /\ value = 0 => invocations' = invocations + 1 /\ got'[c] = invocations']_vars
    /\ [][\A n \in Promises : outer[n].st = "resolved" => value' = n]_vars

\* an invocation rejected and was observed as rejected by a caller, and a later
\* invocation resolved and is memoized
C5_Witness ==
    /\ \E c \in Callers : seen[c].st = "rejected"
    /\ \E n \in Promises : n > 1 /\ outer[n].st = "resolved" /\ value = n

-----------------------------------------------------------------------------
(* runTests() and innerRunTests(), runTest.ts; killTree(), util.ts *)

Signals == {"SIGTERM", "SIGKILL", "SIGSEGV"}

\* exit codes, as the strings of their decimal digits: success, and a failure
\* code other than the 1 that code-test uses for its own failures
ExitCodes == {"0", "2"}

Resolved(v) == [st |-> "resolved", v |-> v]

Rejected(v) == [st |-> "rejected", v |-> v]

\* a promise on which the last resolve() or reject() call wins
SettleLast(p, outcomes) ==
    IF outcomes # << >> THEN outcomes[Len(outcomes)] ELSE p

\* resolve() and reject() of a promise that is settled already do nothing
Settle(p, outcomes) ==
    IF p.st = "pending" /\ outcomes # << >> THEN outcomes[1] ELSE p

\* the close handler, lines 288-299, as it was before the signal was propagated
CloseOutcomesNoSignal(code, signal) ==
    IF code # "0"
    THEN << Rejected("Failed"), Resolved(code) >>
    ELSE << Resolved(code) >>

\* the close handler, lines 288-299: the reject and resolve calls it makes
CloseOutcomes(code, signal) ==
    IF code = "null"
    THEN << Rejected(signal), Resolved(code) >>
    ELSE IF code # "0"
         THEN << Rejected("Failed"), Resolved(code) >>
         ELSE << Resolved(code) >>

\* killTree(processId, force): the command it spawns (util.ts lines 510-528)
killTreeUnforced(processId, force, host) ==
    IF host = "win32"
    THEN [cmd |-> "taskkill.exe", args |-> << "/T", "/PID", processId >>]
    ELSE [cmd |-> "sh", args |-> << "killTree.sh", processId, "15" >>]

killTree(processId, force, host) ==
    IF host = "win32"
    THEN [cmd |-> "taskkill.exe",
          args |-> (IF force THEN << "/F" >> ELSE << >>) \o << "/T", "/PID", processId >>]
    ELSE [cmd |-> "sh",
          args |-> << "killTree.sh", processId, IF force THEN "9" ELSE "15" >>]

ChildPid == "pid"

\* the graceful-terminate signal sent to the child alone
GracefulSignal == [cmd |-> "kill", args |-> << ChildPid, "SIGTERM" >>]

\* what the first interrupt handler sends
FirstStageForced == killTree(ChildPid, TRUE, hostPlatform)

FirstStage == GracefulSignal

\* line 248: the await of downloadAndUnzipVSCode has returned
DownloadReturnedOrNot == TRUE

DownloadReturned == pc = "done"

\* innerRunTests, lines 272-274: cp.spawn(executable, args, { env })
Spawn(executable) ==
    /\ spawned' = executable
    /\ child' = "running"
    /\ exit' = NoExit
    /\ sup' = "Running"
    /\ interrupts' = 0
    /\ interruptsAtExit' = 0
    /\ issued' = << >>
    /\ pending' = {}
    /\ promise' = Pending
    /\ closes' = 0
    /\ rpc' = "running"

\* runTests with options.vscodeExecutablePath: lines 247, 251-262, 272-274
RunTestsWithExecutable ==
    /\ rpc \in {"idle", "settled"}
    /\ runs < MaxRuns
    /\ runs' = runs + 1
    /\ exeSupplied' = TRUE
    /\ callsAtRun' = calls
    /\ Spawn("options.vscodeExecutablePath")
    /\ UNCHANGED << hostPlatform, dlVars, onceVars, streamVars, inferVars, versionVars, validateVars, zipVars, profileVars, reporterVars, cliVars, sinkVars, ccVars, catalogVars, watchVars, configVars >>

\* runTests without it: line 248 calls downloadAndUnzipVSCode(version, platform);
\* the calls are made with options.platform unset, so that download() takes
\* systemDefaultPlatform (part_010, line 244)
RunTestsWithDownload ==
    /\ rpc \in {"idle", "settled"}
    /\ runs < MaxRuns
    /\ calls < MaxCalls
    /\ runs' = runs + 1
    /\ exeSupplied' = FALSE
    /\ callsAtRun' = calls
    /\ rpc' = "downloading"
    /\ spawned' = "none"
    /\ child' = "none"
    /\ exit' = NoExit
    /\ sup' = "Idle"
    /\ promise' = Pending
    /\ closes' = 0
    /\ \E v \in VersionArgs : DlBegin(v, systemDefaultPlatform(hostPlatform))
    /\ UNCHANGED << hostPlatform, interrupts, interruptsAtExit, issued, pending, onceVars, streamVars, inferVars, versionVars, validateVars, zipVars, profileVars, reporterVars, cliVars, sinkVars, ccVars, catalogVars, watchVars, configVars >>

\* line 248 returns: lines 251-262 and the spawn
RunSpawnDownloaded ==
    /\ rpc = "downloading"
    /\ DownloadReturned
    /\ Spawn(IF result.kind = "path" THEN result.path ELSE "undefined")
    /\ UNCHANGED << hostPlatform, exeSupplied, runs, callsAtRun, dlVars, onceVars, streamVars, inferVars, versionVars, validateVars, zipVars, profileVars, reporterVars, cliVars, sinkVars, ccVars, catalogVars, watchVars, configVars >>

\* line 248 throws: runTests rejects with the error of the download
RunDownloadFailed ==
    /\ rpc = "downloading"
    /\ pc = "failed"
    /\ promise' = Rejected(result.error)
    /\ rpc' = "settled"
    /\ UNCHANGED << hostPlatform, exeSupplied, runs, callsAtRun, spawned, child, exit, sup,
                    interrupts, interruptsAtExit, issued, pending, closes, dlVars, onceVars, streamVars, inferVars, versionVars, validateVars, zipVars, profileVars, reporterVars, cliVars, sinkVars, ccVars, catalogVars, watchVars, configVars >>

Alive == child \in {"running", "closing"}

\* the application ends by itself with an exit code
ChildExit ==
    /\ Alive
    /\ \E code \in ExitCodes : exit' = [code |-> code, signal |-> "null"]
    /\ child' = "exited"
    /\ interruptsAtExit' = interrupts
    /\ UNCHANGED << hostPlatform, rpc, exeSupplied, runs, callsAtRun, spawned, sup, interrupts,
                    issued, pending, promise, closes, dlVars, onceVars, streamVars, inferVars, versionVars, validateVars, zipVars, profileVars, reporterVars, cliVars, sinkVars, ccVars, catalogVars, watchVars, configVars >>

\* the application is terminated by a signal nobody here sent
ChildCrash ==
    /\ Alive
    /\ exit' = [code |-> "null", signal |-> "SIGSEGV"]
    /\ child' = "exited"
    /\ interruptsAtExit' = interrupts
    /\ UNCHANGED << hostPlatform, rpc, exeSupplied, runs, callsAtRun, spawned, sup, interrupts,
                    issued, pending, promise, closes, dlVars, onceVars, streamVars, inferVars, versionVars, validateVars, zipVars, profileVars, reporterVars, cliVars, sinkVars, ccVars, catalogVars, watchVars, configVars >>

\* the graceful signal reaches the application: it begins to shut down, or it
\* does not handle the signal and is terminated by it
DeliverGraceful ==
    /\ Alive
    /\ "graceful" \in pending
    /\ pending' = pending \ {"graceful"}
    /\ \E handled \in BOOLEAN :
          IF handled
          THEN /\ child' = "closing"
               /\ UNCHANGED << exit, interruptsAtExit >>
          ELSE /\ child' = "exited"
               /\ exit' = [code |-> "null", signal |-> "SIGTERM"]
               /\ interruptsAtExit' = interrupts
    /\ UNCHANGED << hostPlatform, rpc, exeSupplied, runs, callsAtRun, spawned, sup, interrupts,
                    issued, promise, closes, dlVars, onceVars, streamVars, inferVars, versionVars, validateVars, zipVars, profileVars, reporterVars, cliVars, sinkVars, ccVars, catalogVars, watchVars, configVars >>

\* the forceful kill of the tree reaches the application and its descendants
DeliverTreeKill ==
    /\ Alive
    /\ "tree" \in pending
    /\ pending' = pending \ {"tree"}
    /\ child' = "exited"
    /\ exit' = [code |-> "null", signal |-> "SIGKILL"]
    /\ interruptsAtExit' = interrupts
    /\ UNCHANGED << hostPlatform, rpc, exeSupplied, runs, callsAtRun, spawned, sup, interrupts,
                    issued, promise, closes, dlVars, onceVars, streamVars, inferVars, versionVars, validateVars, zipVars, profileVars, reporterVars, cliVars, sinkVars, ccVars, catalogVars, watchVars, configVars >>

\* cmd.on('close', ...), lines 288-299
Close ==
    /\ rpc = "running"
    /\ child = "exited"
    /\ promise' = Settle(promise, CloseOutcomes(exit.code, exit.signal))
    /\ closes' = closes + 1
    /\ sup' = "Terminated"
    /\ rpc' = "settled"
    /\ UNCHANGED << hostPlatform, exeSupplied, runs, callsAtRun, spawned, child, exit,
                    interrupts, interruptsAtExit, issued, pending, dlVars, onceVars, streamVars, inferVars, versionVars, validateVars, zipVars, profileVars, reporterVars, cliVars, sinkVars, ccVars, catalogVars, watchVars, configVars >>

\* the first interrupt signal, while Running
FirstInterrupt ==
    /\ rpc = "running"
    /\ sup = "Running"
    /\ interrupts < MaxInterrupts
    /\ interrupts' = interrupts + 1
    /\ issued' = Append(issued, FirstStage)
    /\ pending' = pending \cup {IF FirstStage = GracefulSignal THEN "graceful" ELSE "tree"}
    /\ sup' = "GracefullyClosing"
    /\ UNCHANGED << hostPlatform, rpc, exeSupplied, runs, callsAtRun, spawned, child, exit,
                    interruptsAtExit, promise, closes, dlVars, onceVars, streamVars, inferVars, versionVars, validateVars, zipVars, profileVars, reporterVars, cliVars, sinkVars, ccVars, catalogVars, watchVars, configVars >>

\* the second interrupt signal, while GracefullyClosing
SecondInterrupt ==
    /\ rpc = "running"
    /\ sup = "GracefullyClosing"
    /\ interrupts < MaxInterrupts
    /\ interrupts' = interrupts + 1
    /\ issued' = Append(issued, killTree(ChildPid, TRUE, hostPlatform))
    /\ pending' = pending \cup {"tree"}
    /\ sup' = "ForcefullyClosing"
    /\ UNCHANGED << hostPlatform, rpc, exeSupplied, runs, callsAtRun, spawned, child, exit,
                    interruptsAtExit, promise, closes, dlVars, onceVars, streamVars, inferVars, versionVars, validateVars, zipVars, profileVars, reporterVars, cliVars, sinkVars, ccVars, catalogVars, watchVars, configVars >>

\* a further interrupt signal, while ForcefullyClosing: no transition is left
LaterInterrupt ==
    /\ rpc = "running"
    /\ sup = "ForcefullyClosing"
    /\ interrupts < MaxInterrupts
    /\ interrupts' = interrupts + 1
    /\ UNCHANGED << hostPlatform, rpc, exeSupplied, runs, callsAtRun, spawned, child, exit, sup,
                    interruptsAtExit, issued, pending, promise, closes, dlVars, onceVars, streamVars, inferVars, versionVars, validateVars, zipVars, profileVars, reporterVars, cliVars, sinkVars, ccVars, catalogVars, watchVars, configVars >>

ChildStep == ChildExit \/ ChildCrash \/ Close

\* runTests() with a download, no interrupt signals
NextRun ==
    \/ RunTestsWithExecutable
    \/ RunTestsWithDownload
    \/ DlStep
    \/ RunSpawnDownloaded
    \/ RunDownloadFailed
    \/ ChildStep

SpecRun == Init /\ [][NextRun]_vars

\* runTests() with an executable, under interrupt signals
NextSupervisor ==
    \/ RunTestsWithExecutable
    \/ ChildStep
    \/ FirstInterrupt
    \/ SecondInterrupt
    \/ LaterInterrupt
    \/ DeliverGraceful
    \/ DeliverTreeKill

SpecSupervisor == InitAnyHost /\ [][NextSupervisor]_vars

\* a kill that was sent reaches the application, and the close event is handled
SpecSupervisorFair ==
    /\ InitAnyHost
    /\ [][NextSupervisor]_vars
    /\ WF_vars(DeliverTreeKill)
    /\ WF_vars(Close)

-----------------------------------------------------------------------------
(* Properties of the supervision of the launched application *)

LastIssued(seq) == seq[Len(seq)]

IsTreeKill(c) == c.cmd \in {"taskkill.exe", "sh"}

IsForceful(c) == \E k \in DOMAIN c.args : c.args[k] \in {"/F", "9"}

Issues == Len(issued') = Len(issued) + 1

InterruptArrives == rpc = "running" /\ interrupts' = interrupts + 1

\* C6: while the application is Running and no interrupt was received before,
\* the first interrupt signal makes the supervisor send the graceful-terminate
\* signal to the child, issue no forceful kill and no tree kill, and move to
\* GracefullyClosing.
C6_FirstInterruptGraceful ==
    [][(InterruptArrives /\ sup = "Running" /\ interrupts = 0)
          => /\ issued' = Append(issued, [cmd |-> "kill", args |-> << ChildPid, "SIGTERM" >>])
             /\ ~IsForceful(LastIssued(issued'))
             /\ ~IsTreeKill(LastIssued(issued'))
             /\ "tree" \notin pending'
             /\ sup' = "GracefullyClosing"]_vars

C6_Witness ==
    /\ sup = "GracefullyClosing"
    /\ interrupts = 1
    /\ issued = << [cmd |-> "kill", args |-> << ChildPid, "SIGTERM" >>] >>
    /\ child = "closing"

ForcefulForm(h) ==
    IF h = "win32"
    THEN [cmd |-> "taskkill.exe", args |-> << "/F", "/T", "/PID", ChildPid >>]
    ELSE [cmd |-> "sh", args |-> << "killTree.sh", ChildPid, "9" >>]

GracefulForm(h) ==
    IF h = "win32"
    THEN [cmd |-> "taskkill.exe", args |-> << "/T", "/PID", ChildPid >>]
    ELSE [cmd |-> "sh", args |-> << "killTree.sh", ChildPid, "15" >>]

\* C7: a forceful kill is issued only on a second interrupt signal received in
\* GracefullyClosing; that interrupt moves the supervisor to ForcefullyClosing
\* and the kill is a kill of the process tree, in the forceful form of killTree
\* for the host (taskkill /F /T /PID on win32, signal 9 through the tree-kill
\* script elsewhere); killTree(pid, false) is the graceful form.
C7_ForcefulOnSecondInterrupt ==
    /\ [][(Issues /\ (IsForceful(LastIssued(issued')) \/ IsTreeKill(LastIssued(issued'))))
             => /\ InterruptArrives
                /\ sup = "GracefullyClosing"
                /\ interrupts = 1
                /\ sup' = "ForcefullyClosing"]_vars
    /\ [][(InterruptArrives /\ sup = "GracefullyClosing")
             => /\ sup' = "ForcefullyClosing"
                /\ Issues
                /\ LastIssued(issued') = ForcefulForm(hostPlatform)
                /\ IsTreeKill(LastIssued(issued'))
                /\ "tree" \in pending']_vars
    /\ [](\A k \in DOMAIN issued :
             IsForceful(issued[k]) => k = 2 /\ issued[k] = killTree(ChildPid, TRUE, hostPlatform))
    /\ [](/\ killTree(ChildPid, TRUE, hostPlatform) = ForcefulForm(hostPlatform)
          /\ killTree(ChildPid, FALSE, hostPlatform) = GracefulForm(hostPlatform))

C7_Witness ==
    /\ sup = "ForcefullyClosing"
    /\ hostPlatform = "win32"
    /\ Len(issued) = 2
    /\ issued[2] = [cmd |-> "taskkill.exe", args |-> << "/F", "/T", "/PID", ChildPid >>]
    /\ "tree" \in pending

TwoInterruptsBeforeExit == interruptsAtExit >= 2

SignalOutcome == promise.st = "rejected" /\ promise.v \in Signals

C9_ExitCodeOutcome ==
    /\ [](rpc = "settled"
            => /\ closes = 1
               /\ promise.st \in {"resolved", "rejected"}
               /\ promise.st = "resolved" <=> exit.code = "0"
               /\ promise.st = "resolved" => promise.v = "0"
               /\ exit.code \notin {"0", "null"} => promise.st = "rejected"
               /\ exit.code = "null" => promise = Rejected(exit.signal))
    /\ [](rpc = "running" => promise = Pending /\ closes = 0)
    /\ [][promise.st # "pending" => (promise' = promise \/ rpc' = "running")]_vars

C9_Witness ==
    /\ rpc = "settled"
    /\ exit = [code |-> "null", signal |-> "SIGSEGV"]
    /\ promise = Rejected("SIGSEGV")
    /\ closes = 1

\* C10: without vscodeExecutablePath the application is spawned only after
\* downloadAndUnzipVSCode has returned, and with the path it returned; when the
\* download or the version resolution fails the application is never spawned
\* and runTests rejects; with vscodeExecutablePath no version is resolved and
\* nothing is downloaded.
C10_SpawnAfterDownload ==
    /\ []((~exeSupplied /\ spawned # "none")
             => pc = "done" /\ result.kind = "path" /\ spawned = result.path)
    /\ []((~exeSupplied /\ rpc # "idle" /\ pc = "failed") => spawned = "none")
    /\ []((~exeSupplied /\ rpc = "settled" /\ pc = "failed")
             => promise = Rejected(result.error))
    /\ []((exeSupplied /\ rpc # "idle") => calls = callsAtRun /\ pc \notin InFlight)
    /\ [][exeSupplied'
             => UNCHANGED << pc, calls, attempts, requests, installs, cache, reports >>]_vars

C10_Witness ==
    /\ ~exeSupplied
    /\ rpc = "settled"
    /\ spawned # "none"
    /\ pc = "done"
    /\ promise = Resolved("0")

-----------------------------------------------------------------------------
(* downloadVSCodeArchive(), lines 131-156, and TimeoutController, request.ts *)

Downloading(n, total) == [stage |-> "Downloading", bytesSoFar |-> n, totalBytes |-> total]

\* TimeoutController.touch(): clearTimeout, then setTimeout anew
touchKeepsHandle(t) == t

touch(t) == 0

\* the data handler's bytesSoFar += chunk.length
Received(n, len) == n + len

\* the report of the end handler, line 148
FinalReport(rs, total) == Append(rs, Downloading(total, total))

Max(a, b) == IF a >= b THEN a ELSE b

\* lines 131-137: the response arrived; the controller is made and the first
\* Downloading report is given
StreamBegin ==
    /\ sst = "idle"
    /\ \E total \in 1..MaxBytes : totalBytes' = total /\ progress' = << Downloading(0, total) >>
    /\ sst' = "streaming"
    /\ bytesSoFar' = 0
    /\ armed' = TRUE
    /\ timer' = 0
    /\ gap' = 0
    /\ maxGap' = 0
    /\ elapsed' = 0
    /\ serr' = "none"
    /\ emitted' = << >>
    /\ UNCHANGED << dlVars, onceVars, runVars, inferVars, versionVars, validateVars, zipVars, profileVars, reporterVars, cliVars, sinkVars, ccVars, catalogVars, watchVars, configVars >>

\* download.on('data'), lines 140-144
StreamData ==
    /\ sst = "streaming"
    /\ \E len \in 1..(totalBytes - bytesSoFar) :
          /\ bytesSoFar' = Received(bytesSoFar, len)
          /\ progress' = Append(progress, Downloading(Received(bytesSoFar, len), totalBytes))
    /\ timer' = touch(timer)
    /\ armed' = TRUE
    /\ gap' = 0
    /\ UNCHANGED << sst, totalBytes, maxGap, elapsed, serr, emitted >>
    /\ UNCHANGED << dlVars, onceVars, runVars, inferVars, versionVars, validateVars, zipVars, profileVars, reporterVars, cliVars, sinkVars, ccVars, catalogVars, watchVars, configVars >>

\* download.on('end'), lines 146-149
StreamEnd ==
    /\ sst = "streaming"
    /\ bytesSoFar = totalBytes
    /\ armed' = FALSE
    /\ progress' = FinalReport(progress, totalBytes)
    /\ sst' = "ended"
    /\ UNCHANGED << totalBytes, bytesSoFar, timer, gap, maxGap, elapsed, serr, emitted >>
    /\ UNCHANGED << dlVars, onceVars, runVars, inferVars, versionVars, validateVars, zipVars, profileVars, reporterVars, cliVars, sinkVars, ccVars, catalogVars, watchVars, configVars >>

\* the connection fails: the stream emits an error and is destroyed; nothing
\* disposes the controller
StreamError ==
    /\ sst = "streaming"
    /\ sst' = "aborted"
    /\ serr' = "socket error"
    /\ emitted' = Append(emitted, "socket error")
    /\ UNCHANGED << totalBytes, bytesSoFar, armed, timer, gap, maxGap, elapsed, progress >>
    /\ UNCHANGED << dlVars, onceVars, runVars, inferVars, versionVars, validateVars, zipVars, profileVars, reporterVars, cliVars, sinkVars, ccVars, catalogVars, watchVars, configVars >>

\* a unit of time passes; a handle that is due does not let time pass
Tick ==
    /\ sst # "idle"
    /\ elapsed < MaxTicks
    /\ armed => timer < IdleWindow
    /\ elapsed' = elapsed + 1
    /\ timer' = IF armed THEN timer + 1 ELSE timer
    /\ gap' = IF sst = "streaming" THEN gap + 1 ELSE gap
    /\ maxGap' = IF sst = "streaming" THEN Max(maxGap, gap + 1) ELSE maxGap
    /\ UNCHANGED << sst, totalBytes, bytesSoFar, armed, progress, serr, emitted >>
    /\ UNCHANGED << dlVars, onceVars, runVars, inferVars, versionVars, validateVars, zipVars, profileVars, reporterVars, cliVars, sinkVars, ccVars, catalogVars, watchVars, configVars >>

\* the handle is due: TimeoutController.reject aborts, and the abort listener
\* (lines 151-154) emits a TimeoutError on the stream and destroys it
TimerFires ==
    /\ armed
    /\ timer = IdleWindow
    /\ armed' = FALSE
    /\ sst' = IF sst = "streaming" THEN "aborted" ELSE sst
    /\ serr' = IF serr = "none" THEN "TimeoutError" ELSE serr
    /\ emitted' = Append(emitted, "TimeoutError")
    /\ UNCHANGED << totalBytes, bytesSoFar, timer, gap, maxGap, elapsed, progress >>
    /\ UNCHANGED << dlVars, onceVars, runVars, inferVars, versionVars, validateVars, zipVars, profileVars, reporterVars, cliVars, sinkVars, ccVars, catalogVars, watchVars, configVars >>

NextStream ==
    \/ StreamBegin
    \/ StreamData
    \/ StreamEnd
    \/ StreamError
    \/ Tick
    \/ TimerFires

SpecStream == Init /\ [][NextStream]_vars

TimedOut == serr = "TimeoutError"

\* C11: while the artifact is streamed, the stream is never idle for longer than
\* the idle window: when no chunk arrived during the window the stream is
\* destroyed and has emitted a TimeoutError. Every chunk restarts the window, so
\* a timeout happens only after a gap of the full window, and a stream whose
\* gaps are all shorter never times out, however long it lasts.
C11_IdleTimeout ==
    /\ [](sst = "streaming" => armed /\ timer = gap /\ gap <= IdleWindow)
    /\ [][(TimedOut' /\ ~TimedOut)
             => sst = "streaming" /\ gap = IdleWindow /\ sst' = "aborted"]_vars
    /\ [][(sst = "streaming" /\ gap = IdleWindow /\ sst' = "aborted" /\ ~armed')
             => TimedOut']_vars
    /\ [][(sst = "streaming" /\ gap = IdleWindow) => elapsed' = elapsed]_vars
    /\ [](TimedOut => sst = "aborted" /\ maxGap = IdleWindow)
    /\ [](maxGap < IdleWindow => ~TimedOut)

C11_Witness ==
    /\ sst = "ended"
    /\ elapsed > IdleWindow + 1
    /\ maxGap < IdleWindow
    /\ serr = "none"
    /\ bytesSoFar = MaxBytes

StrictlyIncreasing(rs) ==
    \A j, k \in DOMAIN rs : j < k => rs[j].bytesSoFar < rs[k].bytesSoFar

\* C12: when the stream of an attempt has ended, its Downloading reports carry
\* strictly increasing bytesSoFar values and exactly one of them, the last, has
\* bytesSoFar equal to totalBytes.
C12_ProgressMonotone ==
    sst = "ended"
        => /\ StrictlyIncreasing(progress)
           /\ Cardinality({ k \in DOMAIN progress : progress[k].bytesSoFar = totalBytes }) = 1
           /\ progress[Len(progress)].bytesSoFar = totalBytes

-----------------------------------------------------------------------------
(* fetchTargetInferredVersion(): the version inferred from engines.vscode *)

Ver(major, minor, patch, pre) ==
    [major |-> major, minor |-> minor, patch |-> patch, pre |-> pre]

\* no version
NoVersion == [major |-> 0, minor |-> 0, patch |-> 0, pre |-> "none"]

\* the catalogs the inference walks, newest first
InferStable == << Ver(1, 61, 0, ""), Ver(1, 60, 2, ""), Ver(1, 55, 2, "") >>

InferInsiders == << Ver(1, 62, 0, "insider"), Ver(1, 60, 0, "insider") >>

Range(op, v) == [op |-> op, v |-> v]

\* what a project can declare: no manifest, a manifest without engines.vscode,
\* or a range
NoManifest == [op |-> "no manifest"]

NoEngines == [op |-> "no engines"]

Declared ==
    { Range("<=", Ver(1, 60, 5, "")), Range("<=", Ver(1, 55, 5, "")),
      Range("^", Ver(1, 50, 0, "")), Range("^", Ver(1, 62, 0, "insider")),
      Range("=", Ver(1, 60, 0, "insider")), Range("<=", Ver(1, 0, 0, "")) }

Manifests == {NoManifest, NoEngines} \cup Declared

\* the order of versions, a pre-release coming before its release
VerLeq(a, b) ==
    \/ a.major < b.major
    \/ a.major = b.major /\ a.minor < b.minor
    \/ a.major = b.major /\ a.minor = b.minor /\ a.patch < b.patch
    \/ a.major = b.major /\ a.minor = b.minor /\ a.patch = b.patch
          /\ (a.pre = b.pre \/ b.pre = "")

\* satisfaction of one range, pre-releases included
Satisfies(v, r) ==
    CASE r.op = "<=" -> VerLeq(v, r.v)
      [] r.op = "^"  -> VerLeq(r.v, v) /\ v.major = r.v.major
      [] r.op = "="  -> v = r.v
      [] OTHER       -> TRUE

\* a partial-match mode: one satisfied range is enough
SatisfiesSome(v, rs) == rs = << >> \/ \E k \in DOMAIN rs : Satisfies(v, rs[k])

\* a candidate must satisfy the ranges of all projects at once
SatisfiesAll(v, rs) == \A k \in DOMAIN rs : Satisfies(v, rs[k])

\* the first entry of a list, walked newest first, that satisfies every range
FirstMatch(list, rs) ==
    LET hits == { k \in DOMAIN list : SatisfiesAll(list[k], rs) }
    IN  IF hits = {} THEN NoVersion
        ELSE list[CHOOSE k \in hits : \A j \in hits : k <= j]

\* the insiders catalog walked before the stable one
InferInsidersFirst(rs) ==
    IF FirstMatch(InferInsiders, rs) # NoVersion THEN FirstMatch(InferInsiders, rs)
    ELSE IF FirstMatch(InferStable, rs) # NoVersion THEN FirstMatch(InferStable, rs)
    ELSE InferStable[1]

\* stable first, then insiders, then the newest stable version
Infer(rs) ==
    IF FirstMatch(InferStable, rs) # NoVersion THEN FirstMatch(InferStable, rs)
    ELSE IF FirstMatch(InferInsiders, rs) # NoVersion THEN FirstMatch(InferInsiders, rs)
    ELSE InferStable[1]

\* a call with one or more extension development paths
InferBegin ==
    /\ ipc = "idle"
    /\ \E n \in 1..MaxProjects : manifests' \in [1..n -> Manifests]
    /\ constraints' = << >>
    /\ inferred' = NoVersion
    /\ ipc' = "reading"
    /\ UNCHANGED << dlVars, onceVars, runVars, streamVars, versionVars, validateVars, zipVars, profileVars, reporterVars, cliVars, sinkVars, ccVars, catalogVars, watchVars, configVars >>

\* the manifest of the next project is read: a missing manifest or a missing
\* range adds no constraint
InferRead ==
    /\ ipc = "reading"
    /\ Len(constraints) < Len(manifests)
    /\ constraints' = Append(constraints, manifests[Len(constraints) + 1])
    /\ UNCHANGED << ipc, manifests, inferred >>
    /\ UNCHANGED << dlVars, onceVars, runVars, streamVars, versionVars, validateVars, zipVars, profileVars, reporterVars, cliVars, sinkVars, ccVars, catalogVars, watchVars, configVars >>

\* the catalogs are fetched and walked
InferResolve ==
    /\ ipc = "reading"
    /\ Len(constraints) = Len(manifests)
    /\ \E ok \in BOOLEAN :
          IF ok
          THEN ipc' = "done" /\ inferred' = Infer(constraints)
          ELSE ipc' = "failed" /\ inferred' = NoVersion
    /\ UNCHANGED << manifests, constraints >>
    /\ UNCHANGED << dlVars, onceVars, runVars, streamVars, versionVars, validateVars, zipVars, profileVars, reporterVars, cliVars, sinkVars, ccVars, catalogVars, watchVars, configVars >>

NextInfer == InferBegin \/ InferRead \/ InferResolve

SpecInfer == Init /\ [][NextInfer]_vars

DeclaredRanges == { k \in DOMAIN manifests : manifests[k] \in Declared }

FitsEveryProject(v) == \A k \in DeclaredRanges : Satisfies(v, manifests[k])

StableIndex(v) == CHOOSE k \in DOMAIN InferStable : InferStable[k] = v

\* C20: when some entry of the stable catalog satisfies the declared range of
\* every project at once, the version returned is the newest such entry; a
\* project without a manifest or without a declared range constrains nothing
\* and is no error; without any constraint the newest stable version is returned.
C20_InferredVersion ==
    /\ ipc = "done" =>
          /\ (\E k \in DOMAIN InferStable : FitsEveryProject(InferStable[k]))
                => /\ \E k \in DOMAIN InferStable : inferred = InferStable[k]
                   /\ FitsEveryProject(inferred)
                   /\ \A k \in DOMAIN InferStable :
                         FitsEveryProject(InferStable[k]) => StableIndex(inferred) <= k
          /\ DeclaredRanges = {} => inferred = InferStable[1]
    /\ ipc = "failed" => Len(constraints) = Len(manifests)

C20_Witness ==
    /\ ipc = "done"
    /\ manifests = << Range("<=", Ver(1, 60, 5, "")), Range("<=", Ver(1, 55, 5, "")) >>
    /\ inferred = Ver(1, 55, 2, "")

StableFits == \E k \in DOMAIN InferStable : FitsEveryProject(InferStable[k])

InsidersFits == \E k \in DOMAIN InferInsiders : FitsEveryProject(InferInsiders[k])

\* C21: the version returned is a stable one whenever a stable entry satisfies
\* all declared ranges, also when insiders entries satisfy them too; when no
\* stable entry does, it is the newest insiders entry that satisfies them; when
\* no entry of either catalog does, it is the newest stable version.
C21_StableBeforeInsiders ==
    ipc = "done" =>
        /\ StableFits => \E k \in DOMAIN InferStable : inferred = InferStable[k]
        /\ (~StableFits /\ InsidersFits)
              => \E k \in DOMAIN InferInsiders :
                    /\ inferred = InferInsiders[k]
                    /\ FitsEveryProject(inferred)
                    /\ \A j \in DOMAIN InferInsiders :
                          FitsEveryProject(InferInsiders[j]) => k <= j
        /\ (~StableFits /\ ~InsidersFits) => inferred = InferStable[1]

C21_Witness ==
    /\ ipc = "done"
    /\ manifests = << Range("^", Ver(1, 50, 0, "")) >>
    /\ InsidersFits
    /\ inferred = Ver(1, 61, 0, "")


-----------------------------------------------------------------------------
(* validateStream(readable, length, sha256) *)

\* a settled promise ignores every later resolve and reject
SettleWith(p, outcome) == IF p.state = "pending" THEN outcome ELSE p

Fulfilled == [state |-> "resolved", error |-> "none"]

RejectedWith(e) == [state |-> "rejected", error |-> e]

onEndChecksumFirst(len, expectedLen, h, expectedSha) ==
    IF expectedSha # "" /\ digest(h) # expectedSha
    THEN RejectedWith("checksum")
    ELSE IF len # expectedLen THEN RejectedWith("length") ELSE Fulfilled

\* the 'end' handler
onEnd(len, expectedLen, h, expectedSha) ==
    IF len # expectedLen
    THEN RejectedWith("length")
    ELSE IF expectedSha # "" /\ digest(h) # expectedSha
         THEN RejectedWith("checksum")
         ELSE Fulfilled

ValidateBegin ==
    /\ rstream = "idle"
    /\ rstream' = "open"
    /\ length' \in 0..MaxStreamBytes
    /\ sha256' \in Checksums
    /\ actualLen' = 0
    /\ checksum' = createHash
    /\ UNCHANGED << received, validated, dlVars, onceVars, runVars, streamVars, inferVars,
                    versionVars, zipVars, profileVars, reporterVars, cliVars, sinkVars, ccVars, catalogVars, watchVars, configVars >>

ValidateData ==
    /\ rstream = "open"
    /\ \E chunk \in Chunks :
          /\ Len(received) + Len(chunk) <= MaxStreamBytes
          /\ received' = received \o chunk
          /\ checksum' = IF sha256 # "" THEN update(checksum, chunk) ELSE checksum
          /\ actualLen' = actualLen + Len(chunk)
    /\ UNCHANGED << rstream, length, sha256, validated, dlVars, onceVars, runVars, streamVars,
                    inferVars, versionVars, zipVars, profileVars, reporterVars, cliVars, sinkVars, ccVars, catalogVars, watchVars, configVars >>

ValidateError ==
    /\ rstream = "open"
    /\ rstream' = "errored"
    /\ validated' = SettleWith(validated, RejectedWith("stream"))
    /\ UNCHANGED << length, sha256, actualLen, checksum, received, dlVars, onceVars, runVars,
                    streamVars, inferVars, versionVars, zipVars, profileVars, reporterVars, cliVars, sinkVars, ccVars, catalogVars, watchVars, configVars >>

ValidateEnd ==
    /\ rstream = "open"
    /\ rstream' = "ended"
    /\ validated' = SettleWith(validated, onEnd(actualLen, length, checksum, sha256))
    /\ UNCHANGED << length, sha256, actualLen, checksum, received, dlVars, onceVars, runVars,
                    streamVars, inferVars, versionVars, zipVars, profileVars, reporterVars, cliVars, sinkVars, ccVars, catalogVars, watchVars, configVars >>

NextValidate == ValidateBegin \/ ValidateData \/ ValidateError \/ ValidateEnd

SpecValidate == Init /\ [][NextValidate]_vars

\* the SHA-256 digest of everything the readable delivered
DigestOf(bytes) == digest(update(createHash, bytes))

LengthMatches == Len(received) = length

ChecksumMatches == sha256 # "" => DigestOf(received) = sha256

\* C22: the promise resolves exactly when the stream ended without an error,
\* the bytes received number `length` and, when a checksum is given, their
\* digest equals it; in every other case of a finished stream it rejects, and
\* a length mismatch is reported in preference to a checksum mismatch.
C22_ValidateStream ==
    /\ validated.state = "resolved"
          <=> (rstream = "ended" /\ LengthMatches /\ ChecksumMatches)
    /\ rstream \in {"ended", "errored"} => validated.state # "pending"
    /\ (rstream = "ended" /\ ~LengthMatches) => validated.error = "length"
    /\ (rstream = "ended" /\ LengthMatches /\ ~ChecksumMatches)
          => validated.error = "checksum"

C22_Witness ==
    /\ rstream = "ended"
    /\ ~LengthMatches
    /\ ~ChecksumMatches
    /\ validated = RejectedWith("length")

-----------------------------------------------------------------------------
(* unzipVSCode: the jszip loop, and isSubdirectory *)

\* path.normalize of an absolute path: ".." removes the segment before it
RECURSIVE normalize(_, _)
normalize(done, rest) ==
    IF rest = << >> THEN done
    ELSE IF Head(rest) = ".."
         THEN normalize(IF done = << >> THEN done ELSE SubSeq(done, 1, Len(done) - 1),
                        Tail(rest))
         ELSE normalize(Append(done, Head(rest)), Tail(rest))

join(base, name) == normalize(<< >>, base \o name)

dirname(p) == IF p = << >> THEN p ELSE SubSeq(p, 1, Len(p) - 1)

CommonPrefix(p, q) ==
    LET Same(n) == n <= Len(p) /\ n <= Len(q) /\ SubSeq(p, 1, n) = SubSeq(q, 1, n)
    IN  CHOOSE n \in 0..Len(p) : Same(n) /\ ~Same(n + 1)

\* path.relative: up from parent to the common ancestor, then down to child
relative(from, to) ==
    LET n == CommonPrefix(from, to)
    IN  [k \in 1..(Len(from) - n) |-> ".."] \o SubSeq(to, n + 1, Len(to))

\* relative.startsWith('..')
startsWithDotDot(rel) == rel # << >> /\ rel[1] \in {"..", "..evil"}

\* path.isAbsolute(relative): only a path on another drive stays absolute
isAbsolute(rel) == rel # << >> /\ rel[1] = "D:"

isSubdirectory(from, to) ==
    LET rel == relative(from, to)
    IN  ~startsWithDotDot(rel) /\ ~isAbsolute(rel)

Ancestors(p) == { SubSeq(p, 1, n) : n \in 1..Len(p) }

ZipBegin ==
    /\ zres = "idle"
    /\ zres' = "extracting"
    /\ UNCHANGED << zcount, zentry, written, made, dlVars, onceVars, runVars, streamVars,
                    inferVars, versionVars, validateVars, profileVars, reporterVars, cliVars, sinkVars, ccVars, catalogVars, watchVars, configVars >>

\* one iteration of the loop over content.files
ZipEntry ==
    /\ zres = "extracting"
    /\ zcount < MaxEntries
    /\ \E file \in ZipEntries :
          LET filepath == join(extractDir, file.name)
          IN  /\ zentry' = file
              /\ zcount' = zcount + 1
              /\ IF file.dir
                 THEN UNCHANGED << zres, written, made >>
                 ELSE IF ~isSubdirectory(extractDir, filepath)
                 THEN zres' = "invalid" /\ UNCHANGED << written, made >>
                 ELSE IF Ancestors(dirname(filepath)) \cap written # {}
                 THEN zres' = "failed" /\ UNCHANGED << written, made >>
                 ELSE /\ made' = made \cup Ancestors(dirname(filepath))
                      /\ IF filepath \in made'
                         THEN zres' = "failed" /\ UNCHANGED written
                         ELSE zres' = zres /\ written' = written \cup {filepath}
    /\ UNCHANGED << dlVars, onceVars, runVars, streamVars, inferVars, versionVars,
                    validateVars, profileVars, reporterVars, cliVars, sinkVars, ccVars, catalogVars, watchVars, configVars >>

ZipEnd ==
    /\ zres = "extracting"
    /\ zres' = "done"
    /\ UNCHANGED << zcount, zentry, written, made, dlVars, onceVars, runVars, streamVars,
                    inferVars, versionVars, validateVars, profileVars, reporterVars, cliVars, sinkVars, ccVars, catalogVars, watchVars, configVars >>

NextZip == ZipBegin \/ ZipEntry \/ ZipEnd

SpecZip == Init /\ [][NextZip]_vars

\* a strict descendant of the extraction directory
Inside(p) ==
    /\ Len(p) > Len(extractDir)
    /\ SubSeq(p, 1, Len(extractDir)) = extractDir

\* C23: a file entry whose joined output path is not inside the extraction
\* directory makes the extraction fail with 'Invalid zip file', and no file
\* has been written outside the extraction directory.
C23_ZipSlip ==
    /\ (zcount > 0 /\ ~zentry.dir /\ ~Inside(join(extractDir, zentry.name)))
          => zres = "invalid"
    /\ \A p \in written : Inside(p)

-----------------------------------------------------------------------------
(* getProfileArguments, hasArg and the argument lists built with them *)

\* a === `--${argName}` || a.startsWith(`--${argName}=`)
hasArg(argName, argList) ==
    \E k \in DOMAIN argList :
        LET a == argList[k]
        IN  \/ a = << "--", argName >>
            \/ Len(a) >= 3 /\ SubSeq(a, 1, 3) = << "--", argName, "=" >>

defaultCachePath == ".vscode-test"

ProfileFlag(argName, sub) == << "--", argName, "=", << defaultCachePath, sub >> >>

getProfileArgumentsAlways(args) ==
    << ProfileFlag("extensions-dir", "extensions"), ProfileFlag("user-data-dir", "user-data") >>

getProfileArguments(args) ==
    (IF ~hasArg("extensions-dir", args)
     THEN << ProfileFlag("extensions-dir", "extensions") >> ELSE << >>)
    \o (IF ~hasArg("user-data-dir", args)
        THEN << ProfileFlag("user-data-dir", "user-data") >> ELSE << >>)

CliPath == << "bin/code" >>

ProfileBegin ==
    /\ ppc = "idle"
    /\ ppc' = "called"
    /\ callerArgs' \in ArgLists
    /\ reuseMachineInstall' \in BOOLEAN
    /\ UNCHANGED << finalArgs, again, dlVars, onceVars, runVars, streamVars, inferVars,
                    versionVars, validateVars, zipVars, reporterVars, cliVars, sinkVars, ccVars, catalogVars, watchVars, configVars >>

\* runVSCodeCommand: the caller's arguments, then the profile arguments
RunVSCodeCommandArgs ==
    /\ ppc = "called"
    /\ ppc' = "built"
    /\ finalArgs' = callerArgs \o (IF ~reuseMachineInstall
                                   THEN getProfileArguments(callerArgs) ELSE << >>)
    /\ UNCHANGED << callerArgs, reuseMachineInstall, again, dlVars, onceVars, runVars,
                    streamVars, inferVars, versionVars, validateVars, zipVars, reporterVars, cliVars, sinkVars, ccVars, catalogVars, watchVars, configVars >>

\* resolveCliArgsFromVSCodeExecutablePath: the CLI path, then the profile arguments
ResolveCliArgs ==
    /\ ppc = "called"
    /\ callerArgs = << >>
    /\ ppc' = "built"
    /\ finalArgs' = << CliPath >> \o (IF ~reuseMachineInstall
                                      THEN getProfileArguments(<< CliPath >>) ELSE << >>)
    /\ UNCHANGED << callerArgs, reuseMachineInstall, again, dlVars, onceVars, runVars,
                    streamVars, inferVars, versionVars, validateVars, zipVars, reporterVars, cliVars, sinkVars, ccVars, catalogVars, watchVars, configVars >>

ProfileReapply ==
    /\ ppc = "built"
    /\ ppc' = "reapplied"
    /\ again' = getProfileArguments(finalArgs)
    /\ UNCHANGED << callerArgs, reuseMachineInstall, finalArgs, dlVars, onceVars, runVars,
                    streamVars, inferVars, versionVars, validateVars, zipVars, reporterVars, cliVars, sinkVars, ccVars, catalogVars, watchVars, configVars >>

NextProfile == ProfileBegin \/ RunVSCodeCommandArgs \/ ResolveCliArgs \/ ProfileReapply

SpecProfile == Init /\ [][NextProfile]_vars

-----------------------------------------------------------------------------
(* ConsoleReporter *)

Log(text) == [to |-> "console.log", text |-> text, ticks |-> 0]

\* process.stdout.write of the progress bar with barTicks '=' signs
ProgressBar(barTicks) == [to |-> "stdout", text |-> "progress bar", ticks |-> barTicks]

Held(rep) == [set |-> TRUE, bytesSoFar |-> rep.bytesSoFar, totalBytes |-> rep.totalBytes]

\* reportDownload(): what it writes
reportDownload(dr) ==
    IF ~dr.set THEN << >>
    ELSE << ProgressBar((dr.bytesSoFar * progressBarSize) \div dr.totalBytes) >>

\* flushDownloadReport(): what it writes
flushDownloadReport(show, dr) ==
    IF show THEN reportDownload(dr) \o << Log("") >> ELSE << >>

ReporterNew ==
    /\ ~constructed
    /\ constructed' = TRUE
    /\ showDownloadProgress' \in BOOLEAN
    /\ UNCHANGED << reporterVersion, downloadReport, timeouts, reportCount, console, dlVars,
                    onceVars, runVars, streamVars, inferVars, versionVars, validateVars, zipVars,
                    profileVars, cliVars, sinkVars, ccVars, catalogVars, watchVars, configVars >>

Receives == constructed /\ reportCount < MaxReports

ReportResolvedVersion ==
    /\ Receives
    /\ reportCount' = reportCount + 1
    /\ reporterVersion' \in {"1.60.0", "insiders"}
    /\ UNCHANGED << constructed, showDownloadProgress, downloadReport, timeouts, console, dlVars,
                    onceVars, runVars, streamVars, inferVars, versionVars, validateVars, zipVars,
                    profileVars, cliVars, sinkVars, ccVars, catalogVars, watchVars, configVars >>

ReportDownloading ==
    /\ Receives
    /\ reportCount' = reportCount + 1
    /\ \E total \in 1..MaxBytes : \E n \in 0..total :
          LET rep == Downloading(n, total)
          IN  IF ~showDownloadProgress /\ rep.bytesSoFar = 0
              THEN /\ console' = Append(console, Log("Downloading VS Code"))
                   /\ UNCHANGED << downloadReport, timeouts >>
              ELSE IF ~downloadReport.set
              THEN /\ downloadReport' = Held(rep)
                   /\ timeouts' = timeouts + 1
                   /\ UNCHANGED console
              ELSE /\ downloadReport' = Held(rep)
                   /\ UNCHANGED << timeouts, console >>
    /\ UNCHANGED << constructed, showDownloadProgress, reporterVersion, dlVars, onceVars,
                    runVars, streamVars, inferVars, versionVars, validateVars, zipVars,
                    profileVars, cliVars, sinkVars, ccVars, catalogVars, watchVars, configVars >>

ReportRetrying ==
    /\ Receives
    /\ reportCount' = reportCount + 1
    /\ console' = console \o flushDownloadReport(showDownloadProgress, downloadReport)
                          \o << Log("Error downloading, retrying") >>
    /\ downloadReport' = IF showDownloadProgress THEN NoDownloadReport ELSE downloadReport
    /\ UNCHANGED << constructed, showDownloadProgress, reporterVersion, timeouts, dlVars,
                    onceVars, runVars, streamVars, inferVars, versionVars, validateVars, zipVars,
                    profileVars, cliVars, sinkVars, ccVars, catalogVars, watchVars, configVars >>

ReportNewInstallComplete ==
    /\ Receives
    /\ reportCount' = reportCount + 1
    /\ console' = console \o flushDownloadReport(showDownloadProgress, downloadReport)
                          \o << Log("Downloaded VS Code") >>
    /\ downloadReport' = IF showDownloadProgress THEN NoDownloadReport ELSE downloadReport
    /\ UNCHANGED << constructed, showDownloadProgress, reporterVersion, timeouts, dlVars,
                    onceVars, runVars, streamVars, inferVars, versionVars, validateVars, zipVars,
                    profileVars, cliVars, sinkVars, ccVars, catalogVars, watchVars, configVars >>

\* the callback of setTimeout(() => this.reportDownload(), 100)
ReportTimeout ==
    /\ timeouts > 0
    /\ timeouts' = timeouts - 1
    /\ console' = console \o reportDownload(downloadReport)
    /\ downloadReport' = NoDownloadReport
    /\ UNCHANGED << constructed, showDownloadProgress, reporterVersion, reportCount, dlVars,
                    onceVars, runVars, streamVars, inferVars, versionVars, validateVars, zipVars,
                    profileVars, cliVars, sinkVars, ccVars, catalogVars, watchVars, configVars >>

NextReporter ==
    \/ ReporterNew
    \/ ReportResolvedVersion
    \/ ReportDownloading
    \/ ReportRetrying
    \/ ReportNewInstallComplete
    \/ ReportTimeout

SpecReporter == Init /\ [][NextReporter]_vars

-----------------------------------------------------------------------------
(* code-test: main() and the process exit code *)

\* main(): the value it returns before runTests is reached
EarlyReturn(args) ==
    CASE args = "unknown option" -> "1"
      [] args = "--help"         -> "0"
      [] args = "--version"      -> "0"
      [] args = "no tests path"  -> "1"

\* main().catch(() => 1).then((exitCode) => process.exitCode = exitCode)
ExitCodeOf(p) == IF p.st = "resolved" THEN p.v ELSE "1"

\* the process starts: parseArgs
CliMain ==
    /\ cliPc \in {"idle", "exited"}
    /\ rpc \in {"idle", "settled"}
    /\ runs < MaxRuns
    /\ cliPc' = "parsed"
    /\ cliArgs' \in CommandLines
    /\ exitCode' = "unset"
    /\ UNCHANGED << dlVars, onceVars, runVars, streamVars, inferVars, versionVars, validateVars,
                    zipVars, profileVars, reporterVars, sinkVars, ccVars, catalogVars, watchVars, configVars >>

CliEarlyReturn ==
    /\ cliPc = "parsed"
    /\ cliArgs # "tests path"
    /\ exitCode' = EarlyReturn(cliArgs)
    /\ cliPc' = "exited"
    /\ UNCHANGED << cliArgs, dlVars, onceVars, runVars, streamVars, inferVars, versionVars,
                    validateVars, zipVars, profileVars, reporterVars, sinkVars, ccVars, catalogVars, watchVars, configVars >>

CliLaunches == cliPc = "parsed" /\ cliArgs = "tests path" /\ rpc \in {"idle", "settled"}

\* return runTests({ vscodeExecutablePath: ..., ... })
CliRunTestsWithExecutable == CliLaunches /\ exitCode = "unset" /\ RunTestsWithExecutable

CliRunTestsWithDownload == CliLaunches /\ exitCode = "unset" /\ RunTestsWithDownload

CliRunning == cliPc = "parsed" /\ cliArgs = "tests path"

\* runTests at work under main()
CliDownloadStep == CliRunning /\ DlStep

CliSpawnDownloaded == CliRunning /\ RunSpawnDownloaded

CliDownloadFailed == CliRunning /\ RunDownloadFailed

CliChildStep == CliRunning /\ ChildStep

\* the promise of runTests has settled: process.exitCode is set
CliExit ==
    /\ CliRunning
    /\ rpc = "settled"
    /\ promise.st # "pending"
    /\ exitCode' = ExitCodeOf(promise)
    /\ cliPc' = "exited"
    /\ UNCHANGED << cliArgs, dlVars, onceVars, runVars, streamVars, inferVars, versionVars,
                    validateVars, zipVars, profileVars, reporterVars, sinkVars, ccVars, catalogVars, watchVars, configVars >>

NextCli ==
    \/ CliMain
    \/ CliEarlyReturn
    \/ CliRunTestsWithExecutable
    \/ CliRunTestsWithDownload
    \/ CliDownloadStep
    \/ CliSpawnDownloaded
    \/ CliDownloadFailed
    \/ CliChildStep
    \/ CliExit

SpecCli == Init /\ [][NextCli]_vars

-----------------------------------------------------------------------------
(* download() with a progress sink that throws *)

ThrowingSinks ==
    {"ResolvedVersion", "FetchingInsidersMetadata", "ReplacingOldInsiders",
     "FoundMatchingInstall", "ResolvingCDNLocation", "Downloading",
     "ExtractingSynchonrously", "Retrying", "NewInstallComplete", "error"}

\* the caller passes a reporter whose method throws
SinkInstall ==
    /\ pc = "idle"
    /\ sink = "quiet"
    /\ sink' \in ThrowingSinks
    /\ UNCHANGED << dlVars, onceVars, runVars, streamVars, inferVars, versionVars,
                    validateVars, zipVars, profileVars, reporterVars, cliVars, ccVars, catalogVars, watchVars, configVars >>

SinkCall ==
    /\ pc \in {"idle", "done", "failed"}
    /\ calls < MaxCalls
    /\ \E v \in {"insiders", "1.60.0"}, p \in {"darwin", "linux-x64"} : DlBegin(v, p)
    /\ UNCHANGED << onceVars, runVars, streamVars, inferVars, versionVars, validateVars,
                    zipVars, profileVars, reporterVars, cliVars, sinkVars, ccVars, catalogVars, watchVars, configVars >>

NextSink == SinkInstall \/ SinkCall \/ DlStep

SpecSink == Init /\ [][NextSink]_vars

-----------------------------------------------------------------------------
(* download(): invocations that run concurrently against one cache root *)

OtherVars ==
    << dlVars, onceVars, runVars, streamVars, inferVars, versionVars, validateVars, zipVars,
       profileVars, reporterVars, cliVars, sinkVars, catalogVars, watchVars, configVars >>

\* const downloadedPath = path.resolve(cachePath, makeDownloadDirName(platform, version))
downloadedPath(k) == makeDownloadDirName(cplatform[k], cversion[k])

Touch(k, d) == touched' = [touched EXCEPT ![k] = @ \cup {d}]

\* the catch block of the retry loop, for invocation k
ConcurrentCatch(k) ==
    IF ci[k] < DOWNLOAD_ATTEMPTS
    THEN /\ ci' = [ci EXCEPT ![k] = NextI(@)]
         /\ cpc' = [cpc EXCEPT ![k] = "attempt"]
         /\ cresult' = cresult
    ELSE /\ ci' = [ci EXCEPT ![k] = @ + 1]
         /\ cpc' = [cpc EXCEPT ![k] = "failed"]
         /\ cresult' = [cresult EXCEPT ![k] = Thrown("Failed to download and unzip VS Code")]

\* the invocations are started in one tick, for distinct platforms; the cache
\* root may hold an install for each of them, and for insiders a stale one
ConcurrentBegin ==
    /\ \A k \in Invocations : cpc[k] = "idle"
    /\ cpc' = [k \in Invocations |-> "resolved"]
    /\ cplatform' \in { f \in [Invocations -> ConcurrentPlatforms] :
                         \A j, k \in Invocations : j # k => f[j] # f[k] }
    /\ cversion' \in [Invocations -> ConcurrentVersions]
    /\ \E installed \in SUBSET Invocations, fresh \in BOOLEAN :
          /\ ccache' = [d \in ConcurrentDirs |->
                          IF \E k \in installed : d = << cplatform'[k], cversion'[k] >>
                          THEN [st |-> "complete", archive |-> d[1], fresh |-> fresh]
                          ELSE NoInstall]
          /\ croot' = (installed # {})
    /\ UNCHANGED << ci, cresult, staging, cstage, touched, OtherVars >>

\* lines 264-301: the cache short-circuit
ConcurrentResolved(k) ==
    /\ cpc[k] = "resolved"
    /\ LET d == downloadedPath(k)
       IN  IF ccache[d].st # "absent"
           THEN IF cversion[k] = "insiders"
                THEN /\ cpc' = [cpc EXCEPT ![k] = "insidersMeta"]
                     /\ cresult' = cresult
                ELSE /\ cpc' = [cpc EXCEPT ![k] = "done"]
                     /\ cresult' = [cresult EXCEPT ![k] =
                                      Returned(ExecutablePath(d, cversion[k], cplatform[k]))]
           ELSE /\ cpc' = [cpc EXCEPT ![k] = "attempt"]
                /\ cresult' = cresult
    /\ UNCHANGED << cplatform, cversion, ci, ccache, croot, staging, cstage, touched,
                    OtherVars >>

\* lines 272-293: the freshness check, and del.rmdir(downloadedPath)
ConcurrentInsidersMeta(k) ==
    /\ cpc[k] = "insidersMeta"
    /\ LET d == downloadedPath(k)
       IN  IF ccache[d].st # "absent" /\ ccache[d].fresh
           THEN /\ cpc' = [cpc EXCEPT ![k] = "done"]
                /\ cresult' = [cresult EXCEPT ![k] =
                                 Returned(insidersDownloadDirToExecutablePath(d, cplatform[k]))]
                /\ UNCHANGED << ccache, touched >>
           ELSE /\ ccache' = [ccache EXCEPT ![d] = NoInstall]
                /\ Touch(k, d)
                /\ cpc' = [cpc EXCEPT ![k] = "attempt"]
                /\ cresult' = cresult
    /\ UNCHANGED << cplatform, cversion, ci, croot, staging, cstage, OtherVars >>

\* downloadVSCodeArchive, lines 113-156: mkdirSync(cachePath), then the requests
ConcurrentArchive(k) ==
    /\ cpc[k] = "attempt"
    /\ croot' = TRUE
    /\ \E ok \in BOOLEAN :
          IF ok
          THEN cpc' = [cpc EXCEPT ![k] = "unzip"] /\ UNCHANGED << ci, cresult >>
          ELSE ConcurrentCatch(k)
    /\ UNCHANGED << cplatform, cversion, ccache, staging, cstage, touched, OtherVars >>

\* unzipVSCode, lines 169-202 and 208-213: a zip is written to the staging
\* file, whose name another invocation of the same millisecond shares; for tar
\* the directory is made
ConcurrentStage(k) ==
    /\ cpc[k] = "unzip"
    /\ LET d == downloadedPath(k)
       IN  IF Format(cplatform[k]) = "zip"
           THEN /\ \E t \in StagingNames, whole \in BOOLEAN :
                      /\ cstage' = [cstage EXCEPT ![k] = t]
                      /\ staging[t] = "none" => whole
                      /\ staging' = [staging EXCEPT ![t] =
                                       IF whole THEN cplatform[k] ELSE "garbled"]
                /\ cpc' = [cpc EXCEPT ![k] = "staged"]
                /\ UNCHANGED << ccache, touched >>
           ELSE /\ ccache' = [ccache EXCEPT ![d] =
                                [st |-> "partial", archive |-> cplatform[k], fresh |-> TRUE]]
                /\ Touch(k, d)
                /\ cpc' = [cpc EXCEPT ![k] = "extracting"]
                /\ UNCHANGED << staging, cstage >>
    /\ UNCHANGED << cplatform, cversion, ci, cresult, croot, OtherVars >>

\* line 202: unzip -q stagingFile -d extractDir begins
ConcurrentUnzip(k) ==
    /\ cpc[k] = "staged"
    /\ LET d == downloadedPath(k)
           content == staging[cstage[k]]
       IN  IF content \in ConcurrentPlatforms
           THEN /\ ccache' = [ccache EXCEPT ![d] =
                                [st |-> "partial", archive |-> content, fresh |-> TRUE]]
                /\ Touch(k, d)
                /\ cpc' = [cpc EXCEPT ![k] = "extracting"]
                /\ UNCHANGED << ci, cresult, staging >>
           ELSE \* the file is gone or garbled: unzip fails, line 205 unlinks it
                /\ staging' = [staging EXCEPT ![cstage[k]] = "none"]
                /\ ConcurrentCatch(k)
                /\ UNCHANGED << ccache, touched >>
    /\ UNCHANGED << cplatform, cversion, croot, cstage, OtherVars >>

\* the decompressor ends; line 205 unlinks the staging file; lines 323-329
ConcurrentExtracted(k) ==
    /\ cpc[k] = "extracting"
    /\ LET d == downloadedPath(k)
       IN  /\ staging' = IF Format(cplatform[k]) = "zip"
                         THEN [staging EXCEPT ![cstage[k]] = "none"]
                         ELSE staging
           /\ \E ok \in BOOLEAN :
                 IF ok
                 THEN /\ ccache' = [ccache EXCEPT ![d].st = "complete"]
                      /\ Touch(k, d)
                      /\ cpc' = [cpc EXCEPT ![k] = "done"]
                      /\ cresult' = [cresult EXCEPT ![k] =
                                       Returned(ExecutablePath(d, cversion[k], cplatform[k]))]
                      /\ ci' = ci
                 ELSE /\ ConcurrentCatch(k)
                      /\ UNCHANGED << ccache, touched >>
    /\ UNCHANGED << cplatform, cversion, croot, cstage, OtherVars >>

NextConcurrent ==
    \/ ConcurrentBegin
    \/ \E k \in Invocations :
          \/ ConcurrentResolved(k)
          \/ ConcurrentInsidersMeta(k)
          \/ ConcurrentArchive(k)
          \/ ConcurrentStage(k)
          \/ ConcurrentUnzip(k)
          \/ ConcurrentExtracted(k)

SpecConcurrent == Init /\ [][NextConcurrent]_vars

-----------------------------------------------------------------------------
(* watchConfigs(), cli-runner/bin.ts lines 246-291 *)

NotWatch ==
    << dlVars, onceVars, runVars, streamVars, inferVars, versionVars, validateVars, zipVars,
       profileVars, reporterVars, cliVars, sinkVars, ccVars, catalogVars, configVars >>

\* what node does with a rejected promise nobody handles: it terminates the
\* process (the default since node 15), or warns (--unhandled-rejections=warn)
UnhandledRejections == {"throw", "warn"}

\* runOrDebounce without the clearTimeout of lines 251-253
runOrDebounceNoClear(t, d) == t + 1

\* lines 250-255: clearTimeout(debounceRun) if it is set, then setTimeout; the
\* number of pending timeouts afterwards
runOrDebounce(t, d) == (IF d = "pending" THEN t - 1 ELSE t) + 1

\* watcher.on('ready'), lines 282-284
WatchReady ==
    /\ alive
    /\ ~ready
    /\ ready' = TRUE
    /\ timers' = runOrDebounce(timers, debounceRun)
    /\ debounceRun' = "pending"
    /\ UNCHANGED << rerun, running, inProgress, events, owed, started, alive, NotWatch >>

\* watcher.on('all'), lines 273-280
WatchEvent ==
    /\ alive
    /\ events < MaxEvents
    /\ events' = events + 1
    /\ owed' = (ready \/ owed)
    /\ IF running
       THEN /\ rerun' = TRUE
            /\ UNCHANGED << timers, debounceRun >>
       ELSE /\ timers' = runOrDebounce(timers, debounceRun)
            /\ debounceRun' = "pending"
            /\ rerun' = rerun
    /\ UNCHANGED << ready, running, inProgress, started, alive, NotWatch >>

\* a timeout set at line 255 is due: lines 256-258, up to the await of runConfigs
WatchTimerFires ==
    /\ alive
    /\ timers > 0
    /\ \E latest_ \in BOOLEAN :
          /\ latest_ => debounceRun = "pending"
          /\ ~latest_ => timers > (IF debounceRun = "pending" THEN 1 ELSE 0)
          /\ debounceRun' = IF latest_ THEN "spent" ELSE debounceRun
    /\ timers' = timers - 1
    /\ running' = TRUE
    /\ rerun' = FALSE
    /\ inProgress' = inProgress + 1
    /\ owed' = FALSE
    /\ started' = started + 1
    /\ UNCHANGED << ready, events, alive, NotWatch >>

\* runConfigs settles: the finally block, lines 260-265; when it has thrown, the
\* promise of the async callback is rejected and nobody handles it
WatchRunEnds ==
    /\ alive
    /\ inProgress > 0
    /\ inProgress' = inProgress - 1
    /\ running' = FALSE
    /\ \E threw \in BOOLEAN, unhandled \in UnhandledRejections :
          /\ ~threw => unhandled = "warn"
          /\ alive' = ~(threw /\ unhandled = "throw")
          /\ IF rerun
             THEN /\ timers' = IF alive' THEN runOrDebounce(timers, debounceRun) ELSE 0
                  /\ debounceRun' = "pending"
             ELSE /\ timers' = IF alive' THEN timers ELSE 0
                  /\ debounceRun' = debounceRun
    /\ UNCHANGED << ready, rerun, events, owed, started, NotWatch >>

NextWatch ==
    \/ WatchReady
    \/ WatchEvent
    \/ WatchTimerFires
    \/ WatchRunEnds

SpecWatch == Init /\ [][NextWatch]_vars

\* a timeout that is due fires, and runConfigs comes to an end
SpecWatchFair == SpecWatch /\ WF_vars(WatchTimerFires) /\ WF_vars(WatchRunEnds)

-----------------------------------------------------------------------------
(* runConfigs(), cli-runner/bin.ts lines 299-358 *)

NotConfigs ==
    << dlVars, onceVars, runVars, streamVars, inferVars, versionVars, validateVars, zipVars,
       profileVars, reporterVars, cliVars, sinkVars, ccVars, catalogVars, watchVars >>

\* the number an exit code stands for
ToNumber(c) == IF c = "0" THEN 0 ELSE IF c = "1" THEN 1 ELSE 2

\* runTests for an application that ends with exit code c: the promise of
\* innerRunTests, settled by the close handler (runTest.ts lines 288-299)
runTests(c) == Settle(Pending, CloseOutcomes(c, "null"))

\* a call of runConfigs with one to MaxConfigs configurations
RunConfigsBegin ==
    /\ qpc = "idle"
    /\ bail' \in BOOLEAN
    /\ \E n \in 1..MaxConfigs : configs' \in [1..n -> BOOLEAN]
    /\ cfgIndex' = 1
    /\ qpc' = "looping"
    /\ UNCHANGED << ran, exitCodes, rcode, settled, NotConfigs >>

\* one iteration of the for loop, lines 335-355
RunConfigsNext ==
    /\ qpc = "looping"
    /\ cfgIndex <= Len(configs)
    /\ IF ~configs[cfgIndex]
       THEN /\ cfgIndex' = cfgIndex + 1
            /\ UNCHANGED << qpc, ran, exitCodes, rcode, settled >>
       ELSE \E c \in ConfigExitCodes :
               /\ ran' = Append(ran, cfgIndex)
               /\ exitCodes' = Append(exitCodes, c)
               /\ IF runTests(c).st = "rejected"
                  THEN \* the await of line 337 throws
                       /\ qpc' = "threw"
                       /\ settled' = Rejected(runTests(c).v)
                       /\ UNCHANGED << cfgIndex, rcode >>
                  ELSE LET nextCode == ToNumber(runTests(c).v)
                       IN  IF nextCode > 0 /\ bail
                           THEN /\ qpc' = "returned"
                                /\ settled' = Resolved(nextCode)
                                /\ UNCHANGED << cfgIndex, rcode >>
                           ELSE /\ rcode' = Max(rcode, nextCode)
                                /\ cfgIndex' = cfgIndex + 1
                                /\ UNCHANGED << qpc, settled >>
    /\ UNCHANGED << bail, configs, NotConfigs >>

\* line 357: return code
RunConfigsReturn ==
    /\ qpc = "looping"
    /\ cfgIndex > Len(configs)
    /\ qpc' = "returned"
    /\ settled' = Resolved(rcode)
    /\ UNCHANGED << bail, configs, cfgIndex, ran, exitCodes, rcode, NotConfigs >>

NextConfigs ==
    \/ RunConfigsBegin
    \/ RunConfigsNext
    \/ RunConfigsReturn

SpecConfigs == Init /\ [][NextConfigs]_vars

-----------------------------------------------------------------------------
(* Version: parse, the getters and toString *)

endsWith(s, suffix) ==
    /\ Len(s) >= Len(suffix)
    /\ SubSeq(s, Len(s) - Len(suffix) + 1, Len(s)) = suffix

Version(id, isReleased) == [id |-> id, isReleased |-> isReleased]

parseKeepsSuffix(str) == Version(str, ~endsWith(str, UNRELEASED_SUFFIX))

parse(str) ==
    LET unreleased == endsWith(str, UNRELEASED_SUFFIX)
    IN  Version(IF unreleased
                THEN SubSeq(str, 1, Len(str) - Len(UNRELEASED_SUFFIX))
                ELSE str,
                ~unreleased)

\* /^[0-9a-f]{40}$/
isCommit(v) ==
    /\ Len(v.id) = 40
    /\ \A k \in 1..Len(v.id) : \E h \in DOMAIN HexChars : v.id[k] = HexChars[h]

isInsiders(v) ==
    \/ v.id = << "i", "n", "s", "i", "d", "e", "r", "s" >>
    \/ endsWith(v.id, << "-", "i", "n", "s", "i", "d", "e", "r" >>)

isStable(v) ==
    \/ v.id = << "s", "t", "a", "b", "l", "e" >>
    \/ MatchesStableRegex(v.id)

toString(v) == v.id \o (IF v.isReleased THEN << >> ELSE UNRELEASED_SUFFIX)

VersionBegin ==
    /\ vpc = "idle"
    /\ vpc' = "input"
    /\ vs' \in VersionStrings
    /\ UNCHANGED << parsed, vclass, vstr, dlVars, onceVars, runVars, streamVars, inferVars,
                    validateVars, zipVars, profileVars, reporterVars, cliVars, sinkVars, ccVars, catalogVars, watchVars, configVars >>

VersionParse ==
    /\ vpc = "input"
    /\ parsed' = parse(vs)
    /\ vpc' = "parsed"
    /\ UNCHANGED << vs, vclass, vstr, dlVars, onceVars, runVars, streamVars, inferVars, validateVars, zipVars, profileVars, reporterVars, cliVars, sinkVars, ccVars, catalogVars, watchVars, configVars >>

VersionGetters ==
    /\ vpc = "parsed"
    /\ vpc' = "read"
    /\ vclass' = [isCommit |-> isCommit(parsed), isInsiders |-> isInsiders(parsed),
                  isStable |-> isStable(parsed)]
    /\ UNCHANGED << vs, parsed, vstr, dlVars, onceVars, runVars, streamVars, inferVars, validateVars, zipVars, profileVars, reporterVars, cliVars, sinkVars, ccVars, catalogVars, watchVars, configVars >>

VersionToString ==
    /\ vpc \in {"parsed", "read"}
    /\ vpc' = "printed"
    /\ vstr' = toString(parsed)
    /\ UNCHANGED << vs, parsed, vclass, dlVars, onceVars, runVars, streamVars, inferVars, validateVars, zipVars, profileVars, reporterVars, cliVars, sinkVars, ccVars, catalogVars, watchVars, configVars >>

NextVersion == VersionBegin \/ VersionParse \/ VersionGetters \/ VersionToString

SpecVersion == Init /\ [][NextVersion]_vars

\* the form digits.digits.digits
ThreeNumbers(s) ==
    \E a, b \in 1..Len(s) :
        /\ a < b
        /\ s[a] = "." /\ s[b] = "."
        /\ AllDigits(s, 1, a - 1)
        /\ AllDigits(s, a + 1, b - 1)
        /\ AllDigits(s, b + 1, Len(s))

FortyHex(s) ==
    /\ Len(s) = 40
    /\ \A k \in 1..Len(s) : s[k] \in Digits \cup {"a", "b", "c", "d", "e", "f"}

\* C27: an identifier of 40 lowercase hexadecimal characters is a commit and
\* neither stable nor insiders; "stable" and every identifier of the form
\* digits.digits.digits is stable; "insiders" and every identifier ending in
\* "-insider" is insiders; no identifier is both stable and insiders.
C27_Classification ==
    vpc = "read" =>
        /\ FortyHex(parsed.id)
              => vclass.isCommit /\ ~vclass.isStable /\ ~vclass.isInsiders
        /\ (parsed.id = << "s", "t", "a", "b", "l", "e" >> \/ ThreeNumbers(parsed.id))
              => vclass.isStable
        /\ (\/ parsed.id = << "i", "n", "s", "i", "d", "e", "r", "s" >>
            \/ endsWith(parsed.id, << "-", "i", "n", "s", "i", "d", "e", "r" >>))
              => vclass.isInsiders
        /\ ~(vclass.isStable /\ vclass.isInsiders)

\* C28: Version.parse(s).toString() is s; when s ends in "-unreleased" the
\* parsed id is s without that suffix and isReleased is false, otherwise the id
\* is s and isReleased is true.
C28_ParseRoundTrip ==
    /\ vpc \notin {"idle", "input"} =>
          IF endsWith(vs, UNRELEASED_SUFFIX)
          THEN parsed.id \o UNRELEASED_SUFFIX = vs /\ ~parsed.isReleased
          ELSE parsed.id = vs /\ parsed.isReleased
    /\ vpc = "printed" => vstr = vs

C28_Witness ==
    /\ vpc = "printed"
    /\ vs = << "1", ".", "6", "0", ".", "0" >> \o UNRELEASED_SUFFIX \o UNRELEASED_SUFFIX
    /\ parsed.id = << "1", ".", "6", "0", ".", "0" >> \o UNRELEASED_SUFFIX

\* the argument is the flag --name, alone or with =value
IsFlag(name, a) ==
    /\ Len(a) >= 2
    /\ a[1] = "--" /\ a[2] = name
    /\ Len(a) > 2 => a[3] = "="

FlagCount(name, argList) == Cardinality({ k \in DOMAIN argList : IsFlag(name, argList[k]) })

ProfileNames == {"extensions-dir", "user-data-dir"}

\* C29: unless reuseMachineInstall is set the final argument list holds both
\* profile flags; a flag is added only when the caller's arguments hold it in
\* neither form, so a caller's flag is never duplicated; getProfileArguments
\* applied to a list that includes its own output returns nothing; with
\* reuseMachineInstall no profile flag is added.
C29_ProfileArguments ==
    /\ ppc \in {"built", "reapplied"} =>
          \A name \in ProfileNames :
              LET before == FlagCount(name, callerArgs)
                  after == FlagCount(name, finalArgs)
              IN  IF reuseMachineInstall THEN after = before
                  ELSE /\ after >= 1
                       /\ after = (IF before = 0 THEN 1 ELSE before)
    /\ (ppc = "reapplied" /\ ~reuseMachineInstall) => again = << >>

C29_Witness ==
    /\ ppc = "reapplied"
    /\ ~reuseMachineInstall
    /\ callerArgs = << << "--", "extensions-dir" >>, << "/my/extensions" >> >>
    /\ Len(finalArgs) = 3
    /\ FlagCount("user-data-dir", finalArgs) = 1

ProgressBarWritten == \E k \in DOMAIN console : console[k].to = "stdout"

\* C30: a ConsoleReporter constructed with showDownloadProgress false never
\* writes the progress bar to stdout, whatever reports it receives.
C30_NoProgressBarWithoutTTY == (constructed /\ ~showDownloadProgress) => ~ProgressBarWritten

Launched == cliArgs = "tests path" /\ spawned # "none"

\* C26: the exit code of the CLI process is the exit code of the application
\* when the application was launched, and 1 when version resolution or the
\* download failed before the launch; it is 0 only when the application exited
\* with 0 or help or version output was requested.
C26_CliExitCode ==
    cliPc = "exited" =>
        /\ (Launched /\ exit.code \in ExitCodes) => exitCode = exit.code
        /\ (cliArgs = "tests path" /\ ~Launched) => exitCode = "1"
        /\ exitCode = "0" => \/ Launched /\ exit.code = "0"
                             \/ cliArgs \in {"--help", "--version"}

\* C25: an exception thrown by the progress sink never aborts the download:
\* the outcome of download() is the one a sink that never throws gives, so it
\* is never the exception of the sink.
C25_SinkNeverAborts == pc = "failed" => result.error # SinkError

\* the entry vscode-<platform>-<version> of an invocation
OwnEntry(k) == << cplatform[k], cversion[k] >>

Started == \E k \in Invocations : cpc[k] # "idle"

-----------------------------------------------------------------------------
(* Claims about the stage reports of download() *)

Positions(s) == { k \in DOMAIN reports : reports[k].stage = s }

\* no Retrying report lies between the reports j and k
SameAttempt(j, k) == \A m \in j..k : reports[m].stage # "Retrying"

\* the call at hand has passed line 264
AfterResolution ==
    \/ pc \in {"insidersMeta", "attempt", "stream", "unzip", "extracting", "done"}
    \/ pc = "failed" /\ result \in {DownloadFailed, RemovalFailed,
                                     Thrown("product.json unreadable")}

\* C31: a call that has determined its version has reported ResolvedVersion
\* exactly once, and as its first report; no call reports it twice. Within an
\* attempt every Downloading report has a ResolvingCDNLocation report before it
\* and every NewInstallComplete report a Downloading report before it. No call
\* reports both FoundMatchingInstall and NewInstallComplete.
C31_StageOrder ==
    /\ Cardinality(Positions("ResolvedVersion")) <= 1
    /\ reports # << >> => reports[1].stage = "ResolvedVersion"
    /\ AfterResolution => Cardinality(Positions("ResolvedVersion")) = 1
    /\ \A k \in Positions("Downloading") :
          \E j \in Positions("ResolvingCDNLocation") : j < k /\ SameAttempt(j, k)
    /\ \A k \in Positions("NewInstallComplete") :
          \E j \in Positions("Downloading") : j < k /\ SameAttempt(j, k)
    /\ Positions("FoundMatchingInstall") = {} \/ Positions("NewInstallComplete") = {}

\* a call that succeeds at its second attempt
C31_Witness ==
    /\ pc = "done"
    /\ Positions("Retrying") # {}
    /\ Positions("NewInstallComplete") # {}
    /\ reports[1].stage = "ResolvedVersion"

\* the Retrying reports of the call, in the order they were made
RetryingAttempts == SelectSeq(reports, LAMBDA r : r.stage = "Retrying")

\* C32: the attempt field of the n-th Retrying report of a call is n, and no
\* attempt field exceeds totalAttempts (DOWNLOAD_ATTEMPTS).
C32_RetryingAttempts ==
    \A n \in DOMAIN RetryingAttempts :
        /\ RetryingAttempts[n].attempt = n
        /\ RetryingAttempts[n].attempt <= DOWNLOAD_ATTEMPTS

\* C33: a call that has installed and returned has reported NewInstallComplete
\* exactly once; NewInstallComplete is reported only when the extraction is
\* complete; a call that failed has not reported it.
C33_NewInstallCompleteOnce ==
    /\ (pc = "done" /\ installs > 0) => Cardinality(Positions("NewInstallComplete")) = 1
    /\ Positions("NewInstallComplete") # {} => cache[dir].st = "complete"
    /\ pc = "failed" => Positions("NewInstallComplete") = {}


\* the stream is over: it has ended, or it has failed and is destroyed
StreamOver == sst \in {"ended", "aborted"}

\* C34: once the stream has ended, failed or been aborted the idle timer is not
\* armed, and no error is emitted on the stream from then on; a stream that is
\* over has emitted at most one error.
C34_NoAbortAfterStreamIsOver ==
    /\ [](StreamOver => ~armed)
    /\ [][StreamOver => emitted' = emitted]_vars
    /\ [](Len(emitted) <= 1)


\* invocation k holds a staging file: written at line 201, unlinked at line 205
UsesStaging(k) == cpc[k] \in {"staged", "extracting"} /\ Format(cplatform[k]) = "zip"

\* C35: two extractions in progress at the same time never use the same staging
\* file.
C35_StagingFileNotShared ==
    \A j, k \in Invocations :
        (j # k /\ UsesStaging(j) /\ UsesStaging(k)) => cstage[j] # cstage[k]


\* C36: the freshness check compares the cached insiders install with the latest
\* build of the platform of that cache entry: a check that finds the install to
\* be the latest build of its platform leaves the cache as it is, and a
\* ReplacingOldInsiders report names the latest build of that platform.
C36_FreshnessOfOwnPlatform ==
    /\ [][(MetadataFetched /\ cache[dir].commit = latest[platform]) => cache' = cache]_vars
    /\ [][(MetadataFetched /\ Len(reports') > Len(reports)
             /\ reports'[Len(reports')].stage = "ReplacingOldInsiders")
             => reports'[Len(reports')].newHash = latest[platform]]_vars


\* C37: no call goes on with the version undefined: a call for 'stable' or for
\* no version whose fetch of the stable catalog succeeded with an empty list has
\* failed, has reported nothing and has started no attempt.
C37_NoUndefinedVersion ==
    /\ resolved # "undefined"
    /\ (StableRequested /\ served = << >> /\ requests.catalog = 1 /\ requests.catalogFailed = 0)
          => /\ pc = "failed"
             /\ reports = << >>
             /\ attempts = 0
             /\ requests.location = 0


-----------------------------------------------------------------------------
(* Claims about watchConfigs() *)

\* C38: in watch mode at most one runConfigs execution is in progress and at
\* most one debounce timeout is pending, whatever the order of the file-change
\* events, the 'ready' event and the timeouts.
C38_OneRunOneTimer ==
    /\ inProgress <= 1
    /\ timers <= 1

\* a change arrived during a run, and the run it asked for is in progress
C38_Witness ==
    /\ inProgress = 1
    /\ events = MaxEvents
    /\ rerun
    /\ ready

\* C39: every file-change event seen after 'ready' is followed by the start of a
\* runConfigs execution.
C39_EveryChangeIsRun == owed ~> ~owed


-----------------------------------------------------------------------------
(* Claims about runConfigs() *)

Desktop == { k \in DOMAIN configs : configs[k] }

\* the configurations in s are those of the set, in their order
InOrder(s, set) ==
    /\ Len(s) = Cardinality(set)
    /\ \A j \in DOMAIN s : s[j] \in set
    /\ \A j, k \in DOMAIN s : j < k => s[j] < s[k]

MaxOf(cs) ==
    IF cs = << >> THEN 0
    ELSE CHOOSE m \in { ToNumber(cs[j]) : j \in DOMAIN cs } :
            \A j \in DOMAIN cs : ToNumber(cs[j]) <= m

Failing == { j \in DOMAIN exitCodes : ToNumber(exitCodes[j]) > 0 }

\* runConfigs returned the code n
ReturnedCode(n) == settled.st = "resolved" /\ settled.v = n

\* C40: when runConfigs has ended: without --bail, or when no application ended
\* with a code above 0, runTests was called for every desktop configuration, in
\* order, and runConfigs returned the maximum of the exit codes; with --bail and
\* a code above 0, the configuration of that code is the last one that ran and
\* runConfigs returned its code.
C40_BailAndMaximum ==
    qpc \in {"returned", "threw"}
        => IF bail /\ Failing # {}
           THEN /\ Failing = {Len(exitCodes)}
                /\ ReturnedCode(ToNumber(exitCodes[Len(exitCodes)]))
           ELSE /\ InOrder(ran, Desktop)
                /\ ReturnedCode(MaxOf(exitCodes))

====
